---------------------------- MODULE Spec2Model ----------------------------
(***************************************************************************)
(* Model of the ICOM simulator (ddurler/sim_icom): the TLV RawFrame        *)
(* builder, the DataItem / DataFrame decoding and the middleware           *)
(* dispatcher with its shared Context and the tag database it writes to.   *)
(*                                                                         *)
(* Two specifications share the module's variables:                        *)
(*   SpecFrame  the RawFrame builder driven by push, remove_junk, the      *)
(*              constructors and try_extend_data_item;                     *)
(*   Spec       the dispatcher (Middlewares) fed with request frames and   *)
(*              database change notifications.                             *)
(***************************************************************************)
EXTENDS Integers, Sequences, FiniteSets, TLC

VARIABLES
    frame,      \* the RawFrame under construction
    stream,     \* bytes pushed into `frame` since it was a fresh Empty builder
    fresh,      \* TRUE while `frame` results from pushes into RawFrame::default() only
    op,         \* last operation applied
    item,       \* data item given to the last try_extend_data_item (NoItem otherwise)
    result      \* Result of the last try_extend_data_item ("none" otherwise)

frame_vars == <<frame, stream, fresh, op, item, result>>

---------------------------------------------------------------------------
(* Bounds of the model *)

\* longest byte sequence a builder is fed with
MaxStream == 6

---------------------------------------------------------------------------
(* Program constants *)

RAW_FRAME_MAX_LEN == 250
STX == 2
ETX == 3
ACK == 6
NACK == 21

\* u8 arithmetic
U8Mod == 256

---------------------------------------------------------------------------
(* u8 helpers *)

RECURSIVE BitXorN(_, _, _)
BitXorN(a, b, n) ==
    IF n = 0 THEN 0
    ELSE (((a % 2) + (b % 2)) % 2) + (2 * BitXorN(a \div 2, b \div 2, n - 1))

\* the `^` of two u8, tabulated once
XorTable == [a \in 0..255 |-> [b \in 0..255 |-> BitXorN(a, b, 8)]]

BitXor(a, b) == XorTable[a][b]

\* xor of values[lo..hi]; `^` is associative, the fold is split in halves
RECURSIVE XorRange(_, _, _)
XorRange(values, lo, hi) ==
    IF lo > hi THEN 0
    ELSE IF lo = hi THEN values[lo]
    ELSE LET mid == (lo + hi) \div 2
         IN  BitXor(XorRange(values, lo, mid), XorRange(values, mid + 1, hi))

\* values.iter().fold(acc, |acc, x| acc ^ x)
FoldXor(acc, values) == BitXor(acc, XorRange(values, 1, Len(values)))

---------------------------------------------------------------------------
(* RawFrame: a tagged variant, held as a record with every field present *)

RawFrame(v, tag, len, values, xor, junk) ==
    [v |-> v, tag |-> tag, len |-> len, values |-> values, xor |-> xor, junk |-> junk]

Empty == RawFrame("Empty", 0, 0, <<>>, 0, <<>>)
Ack == RawFrame("Ack", 0, 0, <<>>, 0, <<>>)
AckAndJunk(junk) == RawFrame("AckAndJunk", 0, 0, <<>>, 0, junk)
Nack == RawFrame("Nack", 0, 0, <<>>, 0, <<>>)
NackAndJunk(junk) == RawFrame("NackAndJunk", 0, 0, <<>>, 0, junk)
Stx == RawFrame("Stx", 0, 0, <<>>, 0, <<>>)
Tag(tag) == RawFrame("Tag", tag, 0, <<>>, 0, <<>>)
TagLen(tag, len) == RawFrame("TagLen", tag, len, <<>>, 0, <<>>)
TagLenValue(tag, len, values) == RawFrame("TagLenValue", tag, len, values, 0, <<>>)
Xor(tag, len, values, xor) == RawFrame("Xor", tag, len, values, xor, <<>>)
Ok(tag, len, values, xor) == RawFrame("Ok", tag, len, values, xor, <<>>)
OkAndJunk(tag, len, values, xor, junk) == RawFrame("OkAndJunk", tag, len, values, xor, junk)
Junk(junk) == RawFrame("Junk", 0, 0, <<>>, 0, junk)

new_ack == Ack

new_nack == Nack

new_message(tag) == Ok(tag, 0, <<>>, tag)

\* a checksum that leaves the length byte out
calcul_xor_without_len(tag, len, values) == FoldXor(tag, values)

calcul_xor(tag, len, values) == FoldXor(BitXor(tag, len), values)

\* the `match self` of push: the variant that follows `f` on `octet`
push_match(f, octet) ==
    CASE f.v = "Empty" ->
            IF octet = ACK THEN Ack
            ELSE IF octet = NACK THEN Nack
            ELSE IF octet = STX THEN Stx
            ELSE Junk(<<octet>>)
      [] f.v = "Ack" -> AckAndJunk(<<octet>>)
      [] f.v = "AckAndJunk" -> AckAndJunk(Append(f.junk, octet))
      [] f.v = "Nack" -> NackAndJunk(<<octet>>)
      [] f.v = "NackAndJunk" -> NackAndJunk(Append(f.junk, octet))
      [] f.v = "Stx" -> Tag(octet)
      [] f.v = "Tag" -> TagLen(f.tag, octet)
      [] f.v = "TagLen" ->
            IF f.len = 0
            THEN IF octet = f.tag
                 THEN Xor(f.tag, 0, <<>>, octet)
                 ELSE Junk(<<STX, f.tag, 0, octet>>)
            ELSE TagLenValue(f.tag, f.len, <<octet>>)
      [] f.v = "TagLenValue" ->
            IF f.len = Len(f.values)
            THEN LET xor == calcul_xor(f.tag, f.len, f.values)
                 IN  IF octet = xor
                     THEN Xor(f.tag, f.len, f.values, xor)
                     ELSE Junk(<<STX, f.tag, f.len>> \o f.values \o <<octet>>)
            ELSE TagLenValue(f.tag, f.len, Append(f.values, octet))
      [] f.v = "Xor" ->
            IF octet = ETX
            THEN Ok(f.tag, f.len, f.values, f.xor)
            ELSE Junk(<<STX, f.tag, f.len>> \o f.values \o <<f.xor, octet>>)
      [] f.v = "Ok" -> OkAndJunk(f.tag, f.len, f.values, f.xor, <<octet>>)
      [] f.v = "OkAndJunk" ->
            OkAndJunk(f.tag, f.len, f.values, f.xor, Append(f.junk, octet))
      [] f.v = "Junk" -> Junk(Append(f.junk, octet))

\* a push that drops the bytes received after a complete message
push_keeps_ok(f, octet) == IF f.v = "Ok" THEN f ELSE push_match(f, octet)

push(f, octet) == push_match(f, octet)

\* a get_state that reports a frame still waiting for its ETX as complete
get_state_without_etx(f) ==
    CASE f.v = "Empty" -> "Empty"
      [] f.v \in {"Ack", "Nack", "Ok", "Xor"} -> "Ok"
      [] f.v \in {"AckAndJunk", "NackAndJunk", "OkAndJunk", "Junk"} -> "Junk"
      [] f.v \in {"Stx", "Tag", "TagLen", "TagLenValue"} -> "Building"

get_state(f) ==
    CASE f.v = "Empty" -> "Empty"
      [] f.v \in {"Ack", "Nack", "Ok"} -> "Ok"
      [] f.v \in {"AckAndJunk", "NackAndJunk", "OkAndJunk", "Junk"} -> "Junk"
      [] f.v \in {"Stx", "Tag", "TagLen", "TagLenValue", "Xor"} -> "Building"

encode(f) ==
    CASE f.v = "Empty" -> <<>>
      [] f.v = "Ack" -> <<ACK>>
      [] f.v = "AckAndJunk" -> <<ACK>> \o f.junk
      [] f.v = "Nack" -> <<NACK>>
      [] f.v = "NackAndJunk" -> <<NACK>> \o f.junk
      [] f.v = "Stx" -> <<STX>>
      [] f.v = "Tag" -> <<STX, f.tag>>
      [] f.v = "TagLen" -> <<STX, f.tag, f.len>>
      [] f.v = "TagLenValue" -> <<STX, f.tag, f.len>> \o f.values
      [] f.v = "Xor" -> <<STX, f.tag, f.len>> \o f.values \o <<f.xor>>
      [] f.v = "Ok" -> <<STX, f.tag, f.len>> \o f.values \o <<f.xor, ETX>>
      [] f.v = "OkAndJunk" ->
            <<STX, f.tag, f.len>> \o f.values \o <<f.xor, ETX>> \o f.junk
      [] f.v = "Junk" -> f.junk

\* a variant of remove_junk that leaves a frame made of junk alone
remove_junk_keeps_junk(f) ==
    CASE f.v = "AckAndJunk" -> Ack
      [] f.v = "NackAndJunk" -> Nack
      [] f.v = "OkAndJunk" -> Ok(f.tag, f.len, f.values, f.xor)
      [] OTHER -> f

remove_junk(f) ==
    CASE f.v = "AckAndJunk" -> Ack
      [] f.v = "NackAndJunk" -> Nack
      [] f.v = "OkAndJunk" -> Ok(f.tag, f.len, f.values, f.xor)
      [] f.v = "Junk" -> Empty
      [] OTHER -> f

---------------------------------------------------------------------------
(* TFormat / TValue / big-endian codec *)

\* A TFormat is [k, n]: n is the length of a VecU8, 0 otherwise
TFormat(k, n) == [k |-> k, n |-> n]

\* A TValue is [k, n, num, bytes]: num carries a numeric value (the bit
\* pattern for F32/F64), bytes the content of a VecU8
TValue(k, n, num, bytes) == [k |-> k, n |-> n, num |-> num, bytes |-> bytes]
TBool(b) == TValue("Bool", 0, IF b THEN 1 ELSE 0, <<>>)
TU8(x) == TValue("U8", 0, x, <<>>)
TU16(x) == TValue("U16", 0, x, <<>>)
TU64(x) == TValue("U64", 0, x, <<>>)
TI16(x) == TValue("I16", 0, x, <<>>)
TVecU8(n, bytes) == TValue("VecU8", n, 0, bytes)

\* impl From<&TValue> for TFormat
t_format_of(tv) == TFormat(tv.k, tv.n)

\* impl From<u8> for TFormat
t_format_from_u8(value) ==
    CASE value = 17 -> TFormat("Bool", 0)
      [] value = 1 -> TFormat("U8", 0)
      [] value = 65 -> TFormat("I8", 0)
      [] value = 2 -> TFormat("U16", 0)
      [] value = 66 -> TFormat("I16", 0)
      [] value = 4 -> TFormat("U32", 0)
      [] value = 68 -> TFormat("I32", 0)
      [] value = 8 -> TFormat("U64", 0)
      [] value = 72 -> TFormat("I64", 0)
      [] value = 100 -> TFormat("F32", 0)
      [] value = 104 -> TFormat("F64", 0)
      [] value >= 128 /\ value <= 255 -> TFormat("VecU8", value - 128)
      [] OTHER -> TFormat("Unknown", 0)

\* impl From<TFormat> for u8
t_format_to_u8(fmt) ==
    CASE fmt.k = "Unknown" -> 0
      [] fmt.k = "Bool" -> 17
      [] fmt.k = "U8" -> 1
      [] fmt.k = "I8" -> 65
      [] fmt.k = "U16" -> 2
      [] fmt.k = "I16" -> 66
      [] fmt.k = "U32" -> 4
      [] fmt.k = "I32" -> 68
      [] fmt.k = "U64" -> 8
      [] fmt.k = "I64" -> 72
      [] fmt.k = "F32" -> 100
      [] fmt.k = "F64" -> 104
      [] fmt.k = "VecU8" -> IF fmt.n >= 0 /\ fmt.n <= 127 THEN 128 + fmt.n ELSE 0

nb_bytes(fmt) ==
    CASE fmt.k = "Unknown" -> 0
      [] fmt.k \in {"U8", "Bool", "I8"} -> 1
      [] fmt.k \in {"U16", "I16"} -> 2
      [] fmt.k \in {"U32", "I32", "F32"} -> 4
      [] fmt.k \in {"U64", "I64", "F64"} -> 8
      [] fmt.k = "VecU8" -> fmt.n

nb_words(fmt) ==
    CASE fmt.k = "Unknown" -> 0
      [] fmt.k \in {"U8", "Bool", "I8", "U16", "I16"} -> 1
      [] fmt.k \in {"U32", "I32", "F32"} -> 2
      [] fmt.k \in {"U64", "I64", "F64"} -> 4
      [] fmt.k = "VecU8" -> IF fmt.n >= 1 /\ fmt.n <= 127 THEN (fmt.n + 1) \div 2 ELSE 0

RECURSIVE Pow256(_)
Pow256(n) == IF n = 0 THEN 1 ELSE U8Mod * Pow256(n - 1)

\* to_be_bytes on w bytes; \div and % round down, so a negative value gives
\* its two's complement
RECURSIVE ToBeBytes(_, _)
ToBeBytes(x, w) ==
    IF w = 0 THEN <<>> ELSE Append(ToBeBytes(x \div U8Mod, w - 1), x % U8Mod)

\* from_be_bytes of the first w bytes
RECURSIVE FromBeBytes(_, _)
FromBeBytes(bytes, w) ==
    IF w = 0 THEN 0 ELSE (U8Mod * FromBeBytes(bytes, w - 1)) + bytes[w]

IsSigned(k) == k \in {"I8", "I16", "I32", "I64"}

\* be_data::encode
be_encode(tv) ==
    CASE tv.k = "Bool" -> IF tv.num # 0 THEN <<1>> ELSE <<0>>
      [] tv.k = "VecU8" -> tv.bytes
      [] OTHER -> ToBeBytes(tv.num, nb_bytes(t_format_of(tv)))

\* be_data::decode: [ok, t_value]
be_decode(fmt, vec_u8) ==
    IF Len(vec_u8) < nb_bytes(fmt)
    THEN [ok |-> FALSE, t_value |-> TVecU8(0, <<>>)]
    ELSE [ok |-> TRUE,
          t_value |->
            CASE fmt.k = "Unknown" -> TVecU8(0, <<>>)
              [] fmt.k = "Bool" -> TBool(vec_u8[1] # 0)
              [] fmt.k = "VecU8" -> TVecU8(fmt.n, vec_u8)
              [] OTHER ->
                    TValue(fmt.k, 0,
                           IF IsSigned(fmt.k) /\ vec_u8[1] >= 128
                           THEN FromBeBytes([vec_u8 EXCEPT ![1] = @ - U8Mod], nb_bytes(fmt))
                           ELSE FromBeBytes(vec_u8, nb_bytes(fmt)),
                           <<>>)]

---------------------------------------------------------------------------
(* DataItem *)

\* DataItem::new(tag, t_value): the format is derived from the value
DataItemNew(tag, t_value) ==
    [tag |-> tag, t_format |-> t_format_of(t_value), t_value |-> t_value]

\* DataItem::encode
data_item_encode(di) ==
    <<di.tag, t_format_to_u8(di.t_format)>> \o be_encode(di.t_value)

SubSeqFrom(s, i) == SubSeq(s, i, Len(s))

\* DataItem::decode: [err, data_item, len]
data_item_decode(values) ==
    LET none == DataItemNew(0, TVecU8(0, <<>>))
    IN  IF Len(values) < 2
        THEN [err |-> "BadDataLength", data_item |-> none, len |-> 0]
        ELSE LET t_format == t_format_from_u8(values[2])
                 data_item_len == 2 + nb_bytes(t_format)
             IN  IF Len(values) < data_item_len
                 THEN [err |-> "BadDataLength", data_item |-> none, len |-> 0]
                 ELSE LET r == be_decode(t_format, SubSeqFrom(values, 3))
                      IN  IF r.ok
                          THEN [err |-> "none",
                                data_item |-> [tag |-> values[1],
                                               t_format |-> t_format,
                                               t_value |-> r.t_value],
                                len |-> data_item_len]
                          ELSE [err |-> "BadDataItem", data_item |-> none, len |-> 0]

\* DataItem::decode_all: [err, data_items]
RECURSIVE data_item_decode_all(_)
data_item_decode_all(values) ==
    IF values = <<>>
    THEN [err |-> "none", data_items |-> <<>>]
    ELSE LET d == data_item_decode(values)
         IN  IF d.err # "none"
             THEN [err |-> d.err, data_items |-> <<>>]
             ELSE LET rest == data_item_decode_all(SubSeqFrom(values, d.len + 1))
                  IN  IF rest.err # "none"
                      THEN rest
                      ELSE [err |-> "none",
                            data_items |-> <<d.data_item>> \o rest.data_items]

\* a try_extend_data_item that refuses a payload of exactly RAW_FRAME_MAX_LEN bytes
try_extend_data_item_off_by_one(f, data_item) ==
    IF f.v = "Ok"
    THEN LET vec_u8 == data_item_encode(data_item)
             new_len == Len(vec_u8) + f.len
         IN  IF new_len >= RAW_FRAME_MAX_LEN
             THEN [err |-> "MaxLengthOverflow", frame |-> f]
             ELSE LET new_values == f.values \o vec_u8
                      new_xor == calcul_xor(f.tag, new_len % U8Mod, new_values)
                  IN  [err |-> "none",
                       frame |-> Ok(f.tag, new_len % U8Mod, new_values, new_xor)]
    ELSE [err |-> "IsNotOk", frame |-> f]

\* RawFrame::try_extend_data_item: [err, frame]
try_extend_data_item(f, data_item) ==
    IF f.v = "Ok"
    THEN LET vec_u8 == data_item_encode(data_item)
             new_len == Len(vec_u8) + f.len
         IN  IF new_len > RAW_FRAME_MAX_LEN
             THEN [err |-> "MaxLengthOverflow", frame |-> f]
             ELSE LET new_values == f.values \o vec_u8
                      new_xor == calcul_xor(f.tag, new_len % U8Mod, new_values)
                  IN  [err |-> "none",
                       frame |-> Ok(f.tag, new_len % U8Mod, new_values, new_xor)]
    ELSE [err |-> "IsNotOk", frame |-> f]

\* RawFrame::new(octets): push every octet into RawFrame::default()
RECURSIVE new(_)
new(octets) ==
    IF octets = <<>> THEN Empty
    ELSE push(new(SubSeq(octets, 1, Len(octets) - 1)), octets[Len(octets)])

---------------------------------------------------------------------------
(* id_message: message tags and data item tags *)

AF_ALIVE == 0
AF_INIT == 1
IC_INIT == 129
AF_MENU == 2
AF_DATA_OUT == 3
AF_DATA_IN == 4
IC_DATA_IN == 132
AF_DATA_OUT_TABLE_INDEX == 5
IC_DATA_OUT_TABLE_INDEX == 133
AF_TEST == 127
AF_PACK_OUT == 11
AF_PACK_IN == 12
IC_PACK_IN == 140

D_PROTOCOLE_VERSION == 1
D_ICOM_VERSION == 2
D_RESIDENT_VERSION == 3
D_APPLI_NUMBER == 4
D_APPLI_VERSION == 5
D_APPLI_CONFIG == 6
D_LANGUAGE == 8
D_DATA_ZONE == 49
D_DATA_TABLE_INDEX == 50
D_DATA_TAG == 51
D_DATA_VALUE == 53
D_DATA_FIRST_TABLE_INDEX == 80
D_PACK_PAYLOAD == 176

---------------------------------------------------------------------------
(* Option<T>: None is the empty sequence, Some(x) the sequence of x *)

None == <<>>
Some(x) == <<x>>

---------------------------------------------------------------------------
(* Database: tags, byte store and the ledger of changes *)

TAG_DATA_PACK == 3909
ID_ANONYMOUS_USER == 0

\* length in bytes of a bloc of the PACK_IN / PACK_OUT area
PackBlocLen == 64

IdTag(zone, num_tag, indice_0, indice_1, indice_2) ==
    [zone |-> zone, num_tag |-> num_tag,
     indice_0 |-> indice_0, indice_1 |-> indice_1, indice_2 |-> indice_2]

\* struct Tag (`Tag` names a RawFrame variant here)
DbTag(word_address, id_tag, t_format) ==
    [word_address |-> word_address, id_tag |-> id_tag, t_format |-> t_format]

\* blocs of the PACK_IN area declared in the database
PackInBlocs == {0, 1, 2, 3}

\* Database::hash_tag after from_file: an I16 measure, the I16 application
\* number written by AF_INIT, the PACK_OUT area (zone 4) and the blocs of the
\* PACK_IN area (zone 5)
hash_tag ==
    {DbTag(0, IdTag(0, 258, 0, 0, 0), TFormat("I16", 0)),
     DbTag(16, IdTag(0, 16, 0, 0, 0), TFormat("I16", 0)),
     DbTag(512, IdTag(4, TAG_DATA_PACK, 0, 0, 0), TFormat("VecU8", PackBlocLen))}
    \cup {DbTag(256 + (32 * b), IdTag(5, TAG_DATA_PACK, 0, 0, b),
                TFormat("VecU8", PackBlocLen)) : b \in PackInBlocs}

get_tag_from_id_tag(db, id_tag) ==
    IF \E t \in db.hash_tag : t.id_tag = id_tag
    THEN Some(CHOOSE t \in db.hash_tag : t.id_tag = id_tag)
    ELSE None

get_tag_from_word_address(db, word_address) ==
    IF \E t \in db.hash_tag : t.word_address = word_address
    THEN Some(CHOOSE t \in db.hash_tag : t.word_address = word_address)
    ELSE None

\* Tag::contains_word_address_area
contains_word_address_area(tag, word_address, area_nb_words) ==
    LET word_address_end == (word_address + area_nb_words) - 1
        tag_address_end == (tag.word_address + nb_words(tag.t_format)) - 1
    IN  word_address_end >= tag.word_address /\ word_address <= tag_address_end

\* the second loop of get_tags_from_word_address_area
RECURSIVE ForwardTags(_, _, _, _, _)
ForwardTags(db, word_address, area_nb_words, forward_word_address, ret_tags) ==
    IF forward_word_address > word_address + area_nb_words
    THEN ret_tags
    ELSE LET t == get_tag_from_word_address(db, forward_word_address + 1)
         IN  IF t = None
             THEN ForwardTags(db, word_address, area_nb_words, forward_word_address + 1,
                              ret_tags)
             ELSE IF contains_word_address_area(t[1], word_address, area_nb_words)
                  THEN ForwardTags(db, word_address, area_nb_words,
                                   forward_word_address + 1, Append(ret_tags, t[1]))
                  ELSE ret_tags

get_tags_from_word_address_area(db, word_address, area_nb_words) ==
    IF get_tag_from_word_address(db, word_address) # None
    THEN ForwardTags(db, word_address, area_nb_words, word_address,
                     <<get_tag_from_word_address(db, word_address)[1]>>)
    ELSE LET before == {t \in db.hash_tag : t.word_address < word_address}
         IN  IF before = {}
             THEN <<>>
             ELSE LET tag == CHOOSE t \in before :
                                \A u \in before : u.word_address <= t.word_address
                  IN  IF contains_word_address_area(tag, word_address, area_nb_words)
                      THEN ForwardTags(db, word_address, area_nb_words, word_address,
                                       <<tag>>)
                      ELSE <<>>

\* Database::vec_u8 holds 0 wherever the model's store has no entry
ByteAt(vec_u8, n) == IF n \in DOMAIN vec_u8 THEN vec_u8[n] ELSE 0

WriteBytes(vec_u8, u8_address, bytes) ==
    LET touched == {(u8_address + i) - 1 : i \in 1..Len(bytes)}
        val(n) == IF n \in touched THEN bytes[(n - u8_address) + 1] ELSE vec_u8[n]
        dom == {n \in (DOMAIN vec_u8) \cup touched : val(n) # 0}
    IN  [n \in dom |-> val(n)]

User(name, use_notification, next_notification_index) ==
    [name |-> name, use_notification |-> use_notification,
     next_notification_index |-> next_notification_index]

NotificationChange(id_user, id_tag) == [id_user |-> id_user, id_tag |-> id_tag]

\* Database::default(); date_recent tells whether less than
\* DURATION_CHANGE_FILTER_SECS have elapsed since date_last_change
DatabaseDefault ==
    [vec_u8 |-> <<>>,
     vec_users |-> <<User("Anonymous user", FALSE, 0)>>,
     vec_changes |-> <<>>,
     date_recent |-> TRUE,
     hash_tag |-> hash_tag]

\* IdUsers::get_id_user: [db, id_user]
ANONYMOUS_USER_NAME == "Anonymous user"

\* IdUsers::get_id_user_name: Some(name), None, or the panic of the index out
\* of bounds of self.vec_users[id_user]
id_users_get_id_user_name(db, id_user) ==
    IF id_user <= Len(db.vec_users)
    THEN IF id_user < Len(db.vec_users)
         THEN [v |-> "Some", name |-> db.vec_users[id_user + 1].name]
         ELSE [v |-> "panic", name |-> ""]
    ELSE [v |-> "None", name |-> ""]

\* Database::get_id_user_name: the name returned, or "panic"
get_id_user_name(db, id_user) ==
    LET r == id_users_get_id_user_name(db, id_user)
    IN  CASE r.v = "Some" -> r.name
          [] r.v = "None" -> ANONYMOUS_USER_NAME
          [] r.v = "panic" -> "panic"

get_id_user(db, name, use_notification) ==
    [db |-> [db EXCEPT !.vec_users =
                Append(@, User(name, use_notification, Len(db.vec_changes)))],
     id_user |-> Len(db.vec_users)]

\* a variant that removes the changes and leaves the cursors where they were
do_purge_changes_keeps_cursors(db, nb) ==
    [db EXCEPT !.vec_changes = SubSeq(@, nb + 1, Len(@))]

do_purge_changes(db, nb) ==
    [db EXCEPT
        !.vec_changes = SubSeq(@, nb + 1, Len(@)),
        !.vec_users = [i \in 1..Len(@) |->
            [@[i] EXCEPT !.next_notification_index = IF @ >= nb THEN @ - nb ELSE 0]]]

\* a variant that purges the whole log, given to everybody or not
purge_changes_whole_log(db) ==
    IF db.vec_changes = <<>>
    THEN db
    ELSE do_purge_changes(db, Len(db.vec_changes))

purge_changes(db) ==
    IF db.vec_changes = <<>>
    THEN db
    ELSE LET candidates ==
                 {Len(db.vec_changes)} \cup
                 {db.vec_users[i].next_notification_index :
                      i \in {j \in 1..Len(db.vec_users) : db.vec_users[j].use_notification}}
             min_changes_index == CHOOSE m \in candidates : \A c \in candidates : m <= c
         IN  IF min_changes_index > 0 THEN do_purge_changes(db, min_changes_index) ELSE db

is_some_users_use_notification(db) ==
    \E i \in 1..Len(db.vec_users) : db.vec_users[i].use_notification

is_same_as_last_change(db, notification_change) ==
    /\ db.vec_changes # <<>>
    /\ db.vec_changes[Len(db.vec_changes)].id_user = notification_change.id_user
    /\ db.vec_changes[Len(db.vec_changes)].id_tag = notification_change.id_tag
    /\ db.date_recent

add_change(db, notification_change) ==
    IF ~is_same_as_last_change(db, notification_change) /\ is_some_users_use_notification(db)
    THEN purge_changes([db EXCEPT !.vec_changes = Append(@, notification_change),
                                  !.date_recent = TRUE])
    ELSE db

\* first offset at or after `offset` whose change is to be notified
RECURSIVE NextNotified(_, _, _, _, _)
NextNotified(db, id_user, include_my_changes, include_anonymous_changes, offset) ==
    IF offset >= Len(db.vec_changes)
    THEN offset
    ELSE LET notification == db.vec_changes[offset + 1]
         IN  IF /\ (include_anonymous_changes \/ notification.id_user # ID_ANONYMOUS_USER)
                /\ (include_my_changes \/ notification.id_user # id_user)
             THEN offset
             ELSE NextNotified(db, id_user, include_my_changes,
                               include_anonymous_changes, offset + 1)

\* a variant that leaves the cursor one past the offset reached, a change
\* returned or not
get_change_past_end(db, id_user, include_my_changes, include_anonymous_changes) ==
    IF id_user >= Len(db.vec_users)
    THEN [db |-> db, change |-> None]
    ELSE IF ~db.vec_users[id_user + 1].use_notification
    THEN [db |-> db, change |-> None]
    ELSE LET notification_offset ==
                 NextNotified(db, id_user, include_my_changes, include_anonymous_changes,
                              db.vec_users[id_user + 1].next_notification_index)
         IN  IF notification_offset < Len(db.vec_changes)
             THEN [db |-> [db EXCEPT !.vec_users[id_user + 1].next_notification_index =
                                         notification_offset + 1],
                   change |-> Some(db.vec_changes[notification_offset + 1])]
             ELSE [db |-> [db EXCEPT !.vec_users[id_user + 1].next_notification_index =
                                         notification_offset + 1],
                   change |-> None]

\* a variant that serves the registered users who take no notifications too
get_change_of_any_user(db, id_user, include_my_changes, include_anonymous_changes) ==
    IF id_user >= Len(db.vec_users)
    THEN [db |-> db, change |-> None]
    ELSE LET notification_offset ==
                 NextNotified(db, id_user, include_my_changes, include_anonymous_changes,
                              db.vec_users[id_user + 1].next_notification_index)
         IN  IF notification_offset < Len(db.vec_changes)
             THEN [db |-> [db EXCEPT !.vec_users[id_user + 1].next_notification_index =
                                         notification_offset + 1],
                   change |-> Some(db.vec_changes[notification_offset + 1])]
             ELSE [db |-> [db EXCEPT !.vec_users[id_user + 1].next_notification_index =
                                         notification_offset],
                   change |-> None]

\* a variant that returns the change found and leaves the cursor before it
get_change_keeps_cursor(db, id_user, include_my_changes, include_anonymous_changes) ==
    IF id_user >= Len(db.vec_users)
    THEN [db |-> db, change |-> None]
    ELSE IF ~db.vec_users[id_user + 1].use_notification
    THEN [db |-> db, change |-> None]
    ELSE LET notification_offset ==
                 NextNotified(db, id_user, include_my_changes, include_anonymous_changes,
                              db.vec_users[id_user + 1].next_notification_index)
         IN  IF notification_offset < Len(db.vec_changes)
             THEN [db |-> [db EXCEPT !.vec_users[id_user + 1].next_notification_index =
                                         notification_offset],
                   change |-> Some(db.vec_changes[notification_offset + 1])]
             ELSE [db |-> [db EXCEPT !.vec_users[id_user + 1].next_notification_index =
                                         notification_offset],
                   change |-> None]

\* a variant that leaves the cursor where it was when no change passes
get_change_keeps_skipped(db, id_user, include_my_changes, include_anonymous_changes) ==
    IF id_user >= Len(db.vec_users)
    THEN [db |-> db, change |-> None]
    ELSE IF ~db.vec_users[id_user + 1].use_notification
    THEN [db |-> db, change |-> None]
    ELSE LET notification_offset ==
                 NextNotified(db, id_user, include_my_changes, include_anonymous_changes,
                              db.vec_users[id_user + 1].next_notification_index)
         IN  IF notification_offset < Len(db.vec_changes)
             THEN [db |-> [db EXCEPT !.vec_users[id_user + 1].next_notification_index =
                                         notification_offset + 1],
                   change |-> Some(db.vec_changes[notification_offset + 1])]
             ELSE [db |-> db, change |-> None]

\* IdUsers::get_change: [db, change]
get_change(db, id_user, include_my_changes, include_anonymous_changes) ==
    IF id_user >= Len(db.vec_users)
    THEN [db |-> db, change |-> None]
    ELSE IF ~db.vec_users[id_user + 1].use_notification
    THEN [db |-> db, change |-> None]
    ELSE LET notification_offset ==
                 NextNotified(db, id_user, include_my_changes, include_anonymous_changes,
                              db.vec_users[id_user + 1].next_notification_index)
         IN  IF notification_offset < Len(db.vec_changes)
             THEN [db |-> [db EXCEPT !.vec_users[id_user + 1].next_notification_index =
                                         notification_offset + 1],
                   change |-> Some(db.vec_changes[notification_offset + 1])]
             ELSE [db |-> [db EXCEPT !.vec_users[id_user + 1].next_notification_index =
                                         notification_offset],
                   change |-> None]

user_write_tag(db, id_user, tag) == add_change(db, NotificationChange(id_user, tag.id_tag))

get_vec_u8_from_word_address(db, word_address, nb_u8) ==
    [i \in 1..nb_u8 |-> ByteAt(db.vec_u8, ((2 * word_address) + i) - 1)]

RECURSIVE UserWriteTags(_, _, _)
UserWriteTags(db, id_user, tags) ==
    IF tags = <<>> THEN db
    ELSE UserWriteTags(user_write_tag(db, id_user, Head(tags)), id_user, Tail(tags))

set_vec_u8_to_word_address(db, id_user, word_address, vec_u8) ==
    UserWriteTags([db EXCEPT !.vec_u8 = WriteBytes(@, 2 * word_address, vec_u8)],
                  id_user,
                  get_tags_from_word_address_area(db, word_address,
                                                  (Len(vec_u8) + 1) \div 2))

set_vec_u8_to_id_tag(db, id_user, id_tag, value) ==
    IF get_tag_from_id_tag(db, id_tag) # None
    THEN set_vec_u8_to_word_address(db, id_user,
                                    get_tag_from_id_tag(db, id_tag)[1].word_address, value)
    ELSE db

get_vec_u8_from_id_tag(db, id_tag, width) ==
    IF get_tag_from_id_tag(db, id_tag) # None
    THEN get_vec_u8_from_word_address(db, get_tag_from_id_tag(db, id_tag)[1].word_address, width)
    ELSE <<>>

---------------------------------------------------------------------------
(* TValue conversions; a String is the sequence of its UTF-8 bytes *)

\* format!("{value}") of a natural number
RECURSIVE Digits(_)
Digits(n) == IF n < 10 THEN <<48 + n>> ELSE Append(Digits(n \div 10), 48 + (n % 10))

\* String::from_utf8_lossy on bytes holding no multi-byte sequence: an ASCII
\* byte is kept, any other byte becomes U+FFFD (EF BF BD)
RECURSIVE vec_u8_to_string(_)
vec_u8_to_string(vec_u8) ==
    IF vec_u8 = <<>> THEN <<>>
    ELSE (IF Head(vec_u8) < 128 THEN <<Head(vec_u8)>> ELSE <<239, 191, 189>>)
         \o vec_u8_to_string(Tail(vec_u8))

\* str::trim on such a string: the white space is TAB, LF, VT, FF, CR, SPACE
RECURSIVE Trim(_)
Trim(str) ==
    LET ws == {9, 10, 11, 12, 13, 32}
    IN  IF str = <<>> THEN str
        ELSE IF Head(str) \in ws THEN Trim(Tail(str))
        ELSE IF str[Len(str)] \in ws THEN Trim(SubSeq(str, 1, Len(str) - 1))
        ELSE str

\* value of a sequence of ASCII digits
RECURSIVE DigitsValue(_)
DigitsValue(str) ==
    IF str = <<>> THEN 0
    ELSE (10 * DigitsValue(SubSeq(str, 1, Len(str) - 1))) + (str[Len(str)] - 48)

\* str::parse::<u64>().unwrap_or(0) and str::parse::<i64>().unwrap_or(0); a
\* text of more than 20 digits is beyond both types
ParseInt(str, signed) ==
    LET minus == str # <<>> /\ str[1] = 45 /\ signed
        body == IF str # <<>> /\ (str[1] = 43 \/ minus) THEN Tail(str) ELSE str
    IN  IF body = <<>> \/ Len(body) > 20 \/ \E i \in 1..Len(body) : body[i] \notin 48..57
        THEN 0
        ELSE IF minus THEN 0 - DigitsValue(body) ELSE DigitsValue(body)

\* impl From<&TValue> for u64
u64_from(tv) ==
    CASE tv.k = "VecU8" -> ParseInt(vec_u8_to_string(tv.bytes), FALSE)
      [] OTHER -> IF tv.num < 0 THEN 0 ELSE tv.num

\* impl From<&TValue> for i64
i64_from(tv) ==
    CASE tv.k = "VecU8" -> ParseInt(vec_u8_to_string(tv.bytes), TRUE)
      [] OTHER -> tv.num

\* impl From<&TValue> for u8 / u32
u8_from(tv) == IF u64_from(tv) < U8Mod THEN u64_from(tv) ELSE 0
u32_from(tv) == IF u64_from(tv) \div Pow256(2) < Pow256(2) THEN u64_from(tv) ELSE 0

\* impl From<&TValue> for i16
i16_from(tv) ==
    IF i64_from(tv) >= 0 - 32768 /\ i64_from(tv) <= 32767 THEN i64_from(tv) ELSE 0

\* the value pushed or truncated to len bytes
PadTo(vec_u8, len) ==
    [i \in 1..len |-> IF i <= Len(vec_u8) THEN vec_u8[i] ELSE 0]

\* impl From<&TValue> for String
string_from(tv) ==
    CASE tv.k = "Bool" -> IF tv.num # 0 THEN <<116, 114, 117, 101>>
                          ELSE <<102, 97, 108, 115, 101>>
      [] tv.k = "VecU8" -> vec_u8_to_string(PadTo(tv.bytes, tv.n))
      [] OTHER -> IF tv.num < 0 THEN <<45>> \o Digits(0 - tv.num) ELSE Digits(tv.num)

\* TValue::to_t_value_vec_u8
to_t_value_vec_u8(tv, len) == TVecU8(len, PadTo(Trim(string_from(tv)), len))

\* TValue::to_vec_u8
to_vec_u8(tv) ==
    CASE tv.k = "Bool" -> IF tv.num # 0 THEN <<255>> ELSE <<0>>
      [] OTHER -> be_encode(tv)

---------------------------------------------------------------------------
(* DataFrame *)

SimpleACK == [v |-> "SimpleACK", tag |-> 0, data_items |-> <<>>]
SimpleNACK == [v |-> "SimpleNACK", tag |-> 0, data_items |-> <<>>]
Message(tag, data_items) == [v |-> "Message", tag |-> tag, data_items |-> data_items]

\* impl TryFrom<RawFrame> for DataFrame: [err, data_frame]
data_frame_try_from(value) ==
    CASE value.v = "Empty" -> [err |-> "IsEmpty", data_frame |-> SimpleNACK]
      [] value.v = "Ack" -> [err |-> "none", data_frame |-> SimpleACK]
      [] value.v \in {"AckAndJunk", "NackAndJunk", "OkAndJunk", "Junk"} ->
            [err |-> "IsJunk", data_frame |-> SimpleNACK]
      [] value.v = "Nack" -> [err |-> "none", data_frame |-> SimpleNACK]
      [] value.v \in {"Stx", "Tag", "TagLen", "TagLenValue", "Xor"} ->
            [err |-> "IsBuilding", data_frame |-> SimpleNACK]
      [] value.v = "Ok" ->
            LET d == data_item_decode_all(value.values)
            IN  IF d.err = "none"
                THEN [err |-> "none", data_frame |-> Message(value.tag, d.data_items)]
                ELSE [err |-> "BadDataItem", data_frame |-> SimpleNACK]

\* DataFrame::get_tag
get_tag(data_frame) ==
    CASE data_frame.v = "SimpleACK" -> ACK
      [] data_frame.v = "SimpleNACK" -> NACK
      [] OTHER -> data_frame.tag

\* DataFrame::get_data_items
get_data_items(data_frame) ==
    IF data_frame.v = "Message" THEN data_frame.data_items ELSE <<>>

---------------------------------------------------------------------------
(* Context, records and the helpers of the middlewares *)

TAG_NUM_END_OF_RECORD == 29200

\* DatabaseAfsecComm once database_afsec_process has registered its user:
\* [db, id_user]
afsec_service == get_id_user(DatabaseDefault, "AFSEC Comm", TRUE)

\* Context::default()
ContextDefault ==
    [nb_init |-> 0, nb_pack_out |-> 0, nb_pack_in |-> 0, nb_data_out |-> 0,
     nb_data_in |-> 0,
     option_zone |-> None, option_table_index |-> None,
     option_vec_u8_tag |-> None, option_t_value |-> None,
     record_datas |-> <<>>,
     notification_changes |-> <<>>,
     records |-> [index_min |-> <<>>, index_max |-> <<>>],
     pack_in |-> [is_transaction |-> FALSE, set_blocs |-> {},
                  private_datas |-> <<>>, set_pending_blocs |-> {}],
     pack_out |-> [is_transaction |-> FALSE, option_nb_total_packets |-> None,
                   option_last_num_packet |-> None, private_datas |-> <<>>]]

get_index_min(records, zone) ==
    IF zone \in DOMAIN records.index_min THEN records.index_min[zone] ELSE 0

get_index_max(records, zone) ==
    IF zone \in DOMAIN records.index_max THEN records.index_max[zone] ELSE 0

\* Records::set_index
set_index(records, zone, index) ==
    LET insert(map) == [z \in (DOMAIN map) \cup {zone} |-> IF z = zone THEN index ELSE map[z]]
        prev_min == get_index_min(records, zone)
        prev_max == get_index_max(records, zone)
    IN  [index_min |-> IF prev_min = 0 \/ index < prev_min
                       THEN insert(records.index_min) ELSE records.index_min,
         index_max |-> IF prev_max = 0 \/ prev_max < index
                       THEN insert(records.index_max) ELSE records.index_max]

\* RecordData::new
RecordData(table_index, id_tag, t_value) ==
    [table_index |-> table_index, id_tag |-> id_tag, t_value |-> t_value]

is_id_tag_end_of_record(id_tag) == id_tag.num_tag = TAG_NUM_END_OF_RECORD

RECURSIVE SetIndexes(_, _)
SetIndexes(records, record_datas) ==
    IF record_datas = <<>> THEN records
    ELSE SetIndexes(set_index(records, Head(record_datas).id_tag.zone,
                              Head(record_datas).table_index),
                    Tail(record_datas))

\* RecordData::collect_record_datas
collect_record_datas(context) ==
    IF context.record_datas # <<>>
    THEN [context EXCEPT !.records = SetIndexes(@, context.record_datas),
                         !.record_datas = <<>>]
    ELSE context

\* utils::add_record
add_record(context, record) ==
    IF is_id_tag_end_of_record(record.id_tag)
    THEN collect_record_datas(context)
    ELSE [context EXCEPT !.record_datas = Append(@, record)]

\* utils::zone_vec_u8_tag_to_id_tag
zone_vec_u8_tag_to_id_tag(zone, vec_u8_tag) ==
    LET vec_u8 == IF Len(vec_u8_tag) < 5 THEN PadTo(vec_u8_tag, 5) ELSE vec_u8_tag
    IN  IdTag(zone, (vec_u8[1] * U8Mod) + vec_u8[2], vec_u8[3], vec_u8[4], vec_u8[5])

\* utils::tag_num_indices_to_vec_u8
tag_num_indices_to_vec_u8(num_tag, indice_0, indice_1, indice_2) ==
    ToBeBytes(num_tag, 2) \o <<indice_0, indice_1, indice_2>>

\* Database::set_u8_to_id_tag and set_i8_to_id_tag: the low byte of the word
set_u8_to_id_tag(db, id_user, id_tag, value) ==
    IF get_tag_from_id_tag(db, id_tag) # None
    THEN LET word_address == get_tag_from_id_tag(db, id_tag)[1].word_address
             vec_u8 == get_vec_u8_from_word_address(db, word_address, 2)
         IN  set_vec_u8_to_word_address(db, id_user, word_address,
                                        [vec_u8 EXCEPT ![2] = value % U8Mod])
    ELSE db

\* a variant whose setters write at the address of Tag::default() when the
\* id_tag is not registered
update_database_of_any_tag(db, id_user, id_tag, t_value) ==
    LET word_address == IF get_tag_from_id_tag(db, id_tag) # None
                        THEN get_tag_from_id_tag(db, id_tag)[1].word_address
                        ELSE 0
    IN  CASE t_value.k = "Bool" ->
                set_vec_u8_to_word_address(db, id_user, word_address, <<t_value.num>>)
          [] t_value.k \in {"U8", "I8"} ->
                set_vec_u8_to_word_address(
                    db, id_user, word_address,
                    [get_vec_u8_from_word_address(db, word_address, 2)
                        EXCEPT ![2] = t_value.num % U8Mod])
          [] t_value.k = "VecU8" ->
                set_vec_u8_to_word_address(db, id_user, word_address,
                                           PadTo(t_value.bytes, t_value.n))
          [] OTHER ->
                set_vec_u8_to_word_address(db, id_user, word_address, be_encode(t_value))

\* utils::update_database with the typed setters of Database
update_database(db, id_user, id_tag, t_value) ==
    CASE t_value.k = "Bool" -> set_vec_u8_to_id_tag(db, id_user, id_tag, <<t_value.num>>)
      [] t_value.k \in {"U8", "I8"} -> set_u8_to_id_tag(db, id_user, id_tag, t_value.num)
      [] t_value.k = "VecU8" ->
            set_vec_u8_to_id_tag(db, id_user, id_tag, PadTo(t_value.bytes, t_value.n))
      [] OTHER -> set_vec_u8_to_id_tag(db, id_user, id_tag, be_encode(t_value))

\* Database::get_t_value_from_tag
get_t_value_from_tag(db, tag) ==
    CASE tag.t_format.k = "Unknown" -> TVecU8(3, <<63, 63, 63>>)
      [] tag.t_format.k = "Bool" ->
            TBool(get_vec_u8_from_word_address(db, tag.word_address, 1)[1] # 0)
      [] tag.t_format.k \in {"U8", "I8"} ->
            be_decode(tag.t_format,
                      <<get_vec_u8_from_word_address(db, tag.word_address, 2)[2]>>).t_value
      [] tag.t_format.k = "VecU8" ->
            TVecU8(tag.t_format.n,
                   get_vec_u8_from_word_address(db, tag.word_address, tag.t_format.n))
      [] OTHER ->
            be_decode(tag.t_format,
                      get_vec_u8_from_word_address(db, tag.word_address,
                                                   nb_bytes(tag.t_format))).t_value

\* what a middleware returns: the reply (an Option<RawFrame>) with the
\* context and the database as it leaves them
Conversation(reply, context, db) == [reply |-> reply, context |-> context, db |-> db]

---------------------------------------------------------------------------
(* MInit *)

get_version_revision_edition_from_u32(version_revision_edition) ==
    <<(version_revision_edition \div 10000) % 100,
      (version_revision_edition \div 100) % 100,
      version_revision_edition % 100>>

\* the three set_u16_to_id_tag of a version, at num_tag, num_tag + 1, num_tag + 2
SetVersion(db, num_tag, t_value) ==
    LET vre == get_version_revision_edition_from_u32(u32_from(t_value))
        set(d, n) == set_vec_u8_to_id_tag(d, afsec_service.id_user,
                                          IdTag(0, num_tag + n, 0, 0, 0),
                                          ToBeBytes(vre[n + 1], 2))
    IN  set(set(set(db, 0), 1), 2)

RECURSIVE MInit_data_items(_, _)
MInit_data_items(db, data_items) ==
    IF data_items = <<>> THEN db
    ELSE LET data_item == Head(data_items)
             id_user == afsec_service.id_user
             next ==
                CASE data_item.tag = D_RESIDENT_VERSION -> SetVersion(db, 1, data_item.t_value)
                  [] data_item.tag = D_APPLI_NUMBER ->
                        set_vec_u8_to_id_tag(db, id_user, IdTag(0, 16, 0, 0, 0),
                                             ToBeBytes(i16_from(data_item.t_value), 2))
                  [] data_item.tag = D_APPLI_VERSION -> SetVersion(db, 17, data_item.t_value)
                  [] data_item.tag = D_APPLI_CONFIG ->
                        set_vec_u8_to_id_tag(db, id_user, IdTag(0, 20, 0, 0, 0),
                                             string_from(data_item.t_value))
                  [] data_item.tag = D_LANGUAGE ->
                        set_vec_u8_to_id_tag(db, id_user, IdTag(1, 8258, 0, 0, 0),
                                             string_from(data_item.t_value))
                  [] OTHER -> db
         IN  MInit_data_items(next, Tail(data_items))

MInit_get_conversation(context, db, request_data_frame) ==
    IF get_tag(request_data_frame) # AF_INIT
    THEN Conversation(None, context, db)
    ELSE LET f0 == new_message(IC_INIT)
             f1 == try_extend_data_item(f0, DataItemNew(D_PROTOCOLE_VERSION, TU16(0))).frame
             f2 == try_extend_data_item(f1, DataItemNew(D_ICOM_VERSION, TU16(0))).frame
         IN  Conversation(Some(f2),
                          [context EXCEPT !.nb_init = @ + 1],
                          MInit_data_items(db, get_data_items(request_data_frame)))

---------------------------------------------------------------------------
(* MPackOut *)

MPackOut_start_transaction(context) ==
    IF context.pack_out.is_transaction
    THEN context
    ELSE [context EXCEPT !.pack_out =
            [is_transaction |-> TRUE, option_nb_total_packets |-> None,
             option_last_num_packet |-> None, private_datas |-> <<>>]]

\* a variant of the loop of end_transaction that writes the last packet first
RECURSIVE WritePackets_backwards(_, _, _)
WritePackets_backwards(db, base_word_address, private_datas) ==
    IF private_datas = <<>> THEN db
    ELSE WritePackets_backwards(
             set_vec_u8_to_word_address(db, afsec_service.id_user,
                 base_word_address + private_datas[Len(private_datas)][1],
                 private_datas[Len(private_datas)][2]),
             base_word_address, SubSeq(private_datas, 1, Len(private_datas) - 1))

RECURSIVE WritePackets(_, _, _)
WritePackets(db, base_word_address, private_datas) ==
    IF private_datas = <<>> THEN db
    ELSE WritePackets(set_vec_u8_to_word_address(db, afsec_service.id_user,
                          base_word_address + Head(private_datas)[1],
                          Head(private_datas)[2]),
                      base_word_address, Tail(private_datas))

\* a variant of end_transaction that returns as it is when the base word
\* address is not found
MPackOut_end_transaction_returns_early(context, db) ==
    IF ~context.pack_out.is_transaction
    THEN [context |-> context, db |-> db]
    ELSE LET some_base_word_address == get_tag_from_id_tag(db, IdTag(4, TAG_DATA_PACK, 0, 0, 0))
         IN  IF some_base_word_address = None
             THEN [context |-> context, db |-> db]
             ELSE [context |-> [context EXCEPT !.pack_out =
                                  [is_transaction |-> FALSE,
                                   option_nb_total_packets |-> None,
                                   option_last_num_packet |-> None,
                                   private_datas |-> <<>>]],
                   db |-> WritePackets(db, some_base_word_address[1].word_address,
                                       context.pack_out.private_datas)]

\* MPackOut::end_transaction: [context, db]
MPackOut_end_transaction(context, db) ==
    IF ~context.pack_out.is_transaction
    THEN [context |-> context, db |-> db]
    ELSE LET some_base_word_address == get_tag_from_id_tag(db, IdTag(4, TAG_DATA_PACK, 0, 0, 0))
         IN  [context |-> [context EXCEPT !.pack_out =
                            [is_transaction |-> FALSE, option_nb_total_packets |-> None,
                             option_last_num_packet |-> None, private_datas |-> <<>>]],
              db |-> IF some_base_word_address # None
                     THEN WritePackets(db, some_base_word_address[1].word_address,
                                       context.pack_out.private_datas)
                     ELSE db]

\* the loop of MPackOut::get_conversation: [context, last_packet_received]
RECURSIVE MPackOut_data_items(_, _, _)
MPackOut_data_items(context, data_items, last_packet_received) ==
    IF data_items = <<>>
    THEN [context |-> context, last_packet_received |-> last_packet_received]
    ELSE LET data_item == Head(data_items)
             vec_u8 == to_vec_u8(data_item.t_value)
         IN  IF data_item.tag = D_PACK_PAYLOAD /\ Len(vec_u8) >= 2
             THEN LET total_nb_packets == vec_u8[1] % 16
                      num_packet == vec_u8[1] \div 16
                  IN  MPackOut_data_items(
                          [context EXCEPT
                              !.pack_out.option_nb_total_packets =
                                  IF @ = None THEN Some(total_nb_packets) ELSE @,
                              !.pack_out.option_last_num_packet = Some(num_packet),
                              !.pack_out.private_datas =
                                  Append(@, <<vec_u8[2], SubSeqFrom(vec_u8, 3)>>)],
                          Tail(data_items),
                          num_packet = total_nb_packets)
             ELSE MPackOut_data_items(context, Tail(data_items), last_packet_received)

\* a variant of get_conversation that ends the transaction after every frame
MPackOut_get_conversation_ends_always(context, db, request_data_frame) ==
    IF get_tag(request_data_frame) # AF_PACK_OUT
    THEN Conversation(None, context, db)
    ELSE LET started == MPackOut_start_transaction([context EXCEPT !.nb_pack_out = @ + 1])
             r == MPackOut_data_items(started, get_data_items(request_data_frame), FALSE)
             e == MPackOut_end_transaction(r.context, db)
         IN  Conversation(Some(new_ack), e.context, e.db)

MPackOut_get_conversation(context, db, request_data_frame) ==
    IF get_tag(request_data_frame) # AF_PACK_OUT
    THEN Conversation(None, context, db)
    ELSE LET started == MPackOut_start_transaction([context EXCEPT !.nb_pack_out = @ + 1])
             r == MPackOut_data_items(started, get_data_items(request_data_frame), FALSE)
             e == MPackOut_end_transaction(r.context, db)
         IN  IF r.last_packet_received
             THEN Conversation(Some(new_ack), e.context, e.db)
             ELSE Conversation(Some(new_ack), r.context, db)

---------------------------------------------------------------------------
(* MPackIn *)

\* MPackIn::start_transaction; `order` is the order in which the HashSet
\* set_blocs is iterated
MPackIn_start_transaction(context, db, order) ==
    IF context.pack_in.is_transaction
    THEN context
    ELSE [context EXCEPT
            !.pack_in.is_transaction = TRUE,
            !.pack_in.private_datas =
                [i \in 1..Len(order) |->
                    <<order[i],
                      get_vec_u8_from_id_tag(db, IdTag(5, TAG_DATA_PACK, 0, 0, order[i]),
                                             PackBlocLen)>>]]

\* a variant of end_transaction that leaves the blocs just sent in set_blocs
MPackIn_end_transaction_keeps_blocs(context) ==
    IF ~context.pack_in.is_transaction
    THEN context
    ELSE [context EXCEPT !.pack_in.set_blocs = @ \cup context.pack_in.set_pending_blocs,
                         !.pack_in.set_pending_blocs = {},
                         !.pack_in.is_transaction = FALSE]

MPackIn_end_transaction(context) ==
    IF ~context.pack_in.is_transaction
    THEN context
    ELSE [context EXCEPT !.pack_in.set_blocs = context.pack_in.set_pending_blocs,
                         !.pack_in.set_pending_blocs = {},
                         !.pack_in.is_transaction = FALSE]

\* a variant of the loop that numbers the blocs from 0
RECURSIVE MPackIn_fill_from_zero(_, _, _)
MPackIn_fill_from_zero(raw_frame, private_datas, total_nb_blocs) ==
    IF private_datas = <<>>
    THEN [raw_frame |-> raw_frame, private_datas |-> private_datas]
    ELSE LET bloc == private_datas[1][1]
             cur_word_address == bloc * 32
             num_bloc == total_nb_blocs - Len(private_datas)
             vec_u8 == <<(16 * num_bloc) + total_nb_blocs, cur_word_address>>
                       \o private_datas[1][2]
             data_item == DataItemNew(D_PACK_PAYLOAD, TVecU8(Len(vec_u8), vec_u8))
             r == try_extend_data_item(raw_frame, data_item)
         IN  IF r.err # "none"
             THEN [raw_frame |-> raw_frame, private_datas |-> private_datas]
             ELSE MPackIn_fill_from_zero(r.frame, Tail(private_datas), total_nb_blocs)

\* the loop of MPackIn::get_conversation: [raw_frame, private_datas]
RECURSIVE MPackIn_fill(_, _, _)
MPackIn_fill(raw_frame, private_datas, total_nb_blocs) ==
    IF private_datas = <<>>
    THEN [raw_frame |-> raw_frame, private_datas |-> private_datas]
    ELSE LET bloc == private_datas[1][1]
             cur_word_address == bloc * 32
             num_bloc == (total_nb_blocs - Len(private_datas)) + 1
             vec_u8 == <<(16 * num_bloc) + total_nb_blocs, cur_word_address>>
                       \o private_datas[1][2]
             data_item == DataItemNew(D_PACK_PAYLOAD, TVecU8(Len(vec_u8), vec_u8))
             r == try_extend_data_item(raw_frame, data_item)
         IN  IF r.err # "none"
             THEN [raw_frame |-> raw_frame, private_datas |-> private_datas]
             ELSE MPackIn_fill(r.frame, Tail(private_datas), total_nb_blocs)

\* a variant of get_conversation that leaves the transaction open when every
\* bloc was sent
MPackIn_get_conversation_never_ends(context, db, request_data_frame, order) ==
    IF get_tag(request_data_frame) \notin {AF_ALIVE, AF_PACK_IN}
    THEN Conversation(None, context, db)
    ELSE IF ~context.pack_in.is_transaction /\ context.pack_in.set_blocs = {}
    THEN Conversation(None, context, db)
    ELSE LET started == MPackIn_start_transaction(context, db, order)
             r == MPackIn_fill(new_message(IC_PACK_IN), started.pack_in.private_datas,
                               Cardinality(started.pack_in.set_blocs))
             filled == [started EXCEPT !.nb_pack_in = @ + 1,
                                       !.pack_in.private_datas = r.private_datas]
         IN  Conversation(Some(r.raw_frame), filled, db)

MPackIn_get_conversation(context, db, request_data_frame, order) ==
    IF get_tag(request_data_frame) \notin {AF_ALIVE, AF_PACK_IN}
    THEN Conversation(None, context, db)
    ELSE IF ~context.pack_in.is_transaction /\ context.pack_in.set_blocs = {}
    THEN Conversation(None, context, db)
    ELSE LET started == MPackIn_start_transaction(context, db, order)
             r == MPackIn_fill(new_message(IC_PACK_IN), started.pack_in.private_datas,
                               Cardinality(started.pack_in.set_blocs))
             filled == [started EXCEPT !.nb_pack_in = @ + 1,
                                       !.pack_in.private_datas = r.private_datas]
         IN  Conversation(Some(r.raw_frame),
                          IF r.private_datas = <<>>
                          THEN MPackIn_end_transaction(filled) ELSE filled,
                          db)

MPackIn_notification_change(context, id_user, id_tag, t_value) ==
    IF id_user # afsec_service.id_user /\ id_tag.zone = 5 /\ id_tag.num_tag = TAG_DATA_PACK
    THEN IF context.pack_in.is_transaction
         THEN [context EXCEPT !.pack_in.set_pending_blocs = @ \cup {id_tag.indice_2}]
         ELSE [context EXCEPT !.pack_in.set_blocs = @ \cup {id_tag.indice_2}]
    ELSE context

---------------------------------------------------------------------------
(* MDataOut *)

MDataOut_reset_conversation(context) ==
    collect_record_datas([context EXCEPT !.option_vec_u8_tag = None,
                                         !.option_t_value = None])

\* a variant of the loop that clears the zone too after a write
RECURSIVE MDataOut_data_items_clears_zone(_, _, _)
MDataOut_data_items_clears_zone(context, db, data_items) ==
    IF data_items = <<>>
    THEN [context |-> context, db |-> db]
    ELSE LET data_item == Head(data_items)
             c1 == CASE data_item.tag = D_DATA_ZONE ->
                        [context EXCEPT !.option_zone = Some(u8_from(data_item.t_value))]
                     [] data_item.tag = D_DATA_TABLE_INDEX ->
                        [context EXCEPT !.option_table_index = Some(u64_from(data_item.t_value))]
                     [] data_item.tag = D_DATA_TAG ->
                        [context EXCEPT !.option_vec_u8_tag =
                            Some(to_t_value_vec_u8(data_item.t_value, 5).bytes)]
                     [] data_item.tag = D_DATA_VALUE ->
                        [context EXCEPT !.option_t_value = Some(data_item.t_value)]
                     [] OTHER -> context
             complete == /\ c1.option_zone # None
                         /\ c1.option_vec_u8_tag # None
                         /\ c1.option_t_value # None
             id_tag == zone_vec_u8_tag_to_id_tag(c1.option_zone[1], c1.option_vec_u8_tag[1])
             cleared == [c1 EXCEPT !.option_zone = None, !.option_vec_u8_tag = None,
                                   !.option_t_value = None]
         IN  IF ~complete
             THEN MDataOut_data_items_clears_zone(c1, db, Tail(data_items))
             ELSE IF c1.option_table_index # None
             THEN MDataOut_data_items_clears_zone(
                      add_record(cleared, RecordData(c1.option_table_index[1], id_tag,
                                                     c1.option_t_value[1])),
                      db, Tail(data_items))
             ELSE MDataOut_data_items_clears_zone(
                      cleared,
                      update_database(db, afsec_service.id_user, id_tag, c1.option_t_value[1]),
                      Tail(data_items))

\* the loop of MDataOut::get_conversation: [context, db]
RECURSIVE MDataOut_data_items(_, _, _)
MDataOut_data_items(context, db, data_items) ==
    IF data_items = <<>>
    THEN [context |-> context, db |-> db]
    ELSE LET data_item == Head(data_items)
             c1 == CASE data_item.tag = D_DATA_ZONE ->
                        [context EXCEPT !.option_zone = Some(u8_from(data_item.t_value))]
                     [] data_item.tag = D_DATA_TABLE_INDEX ->
                        [context EXCEPT !.option_table_index = Some(u64_from(data_item.t_value))]
                     [] data_item.tag = D_DATA_TAG ->
                        [context EXCEPT !.option_vec_u8_tag =
                            Some(to_t_value_vec_u8(data_item.t_value, 5).bytes)]
                     [] data_item.tag = D_DATA_VALUE ->
                        [context EXCEPT !.option_t_value = Some(data_item.t_value)]
                     [] OTHER -> context
             complete == /\ c1.option_zone # None
                         /\ c1.option_vec_u8_tag # None
                         /\ c1.option_t_value # None
             id_tag == zone_vec_u8_tag_to_id_tag(c1.option_zone[1], c1.option_vec_u8_tag[1])
             cleared == [c1 EXCEPT !.option_vec_u8_tag = None, !.option_t_value = None]
         IN  IF ~complete
             THEN MDataOut_data_items(c1, db, Tail(data_items))
             ELSE IF c1.option_table_index # None
             THEN MDataOut_data_items(
                      add_record(cleared, RecordData(c1.option_table_index[1], id_tag,
                                                     c1.option_t_value[1])),
                      db, Tail(data_items))
             ELSE MDataOut_data_items(
                      cleared,
                      update_database(db, afsec_service.id_user, id_tag, c1.option_t_value[1]),
                      Tail(data_items))

MDataOut_get_conversation(context, db, request_data_frame) ==
    IF get_tag(request_data_frame) # AF_DATA_OUT
    THEN Conversation(None, context, db)
    ELSE LET r == MDataOut_data_items(
                      [context EXCEPT !.nb_data_out = @ + 1,
                                      !.option_vec_u8_tag = None,
                                      !.option_t_value = None],
                      db, get_data_items(request_data_frame))
         IN  Conversation(Some(new_ack), r.context, r.db)

---------------------------------------------------------------------------
(* MDataIn, MDataOutTableIndex, MMenu *)

\* a variant of the loop that keeps the frame as far as it was attempted when
\* an entry does not fit
RECURSIVE MDataIn_fill_keeps_attempt(_, _, _)
MDataIn_fill_keeps_attempt(raw_frame, notification_changes, cur_zone) ==
    IF notification_changes = <<>>
    THEN [raw_frame |-> raw_frame, notification_changes |-> notification_changes]
    ELSE LET id_tag == notification_changes[1][1]
             t_value == notification_changes[1][2]
             zone == IF id_tag.zone # cur_zone
                     THEN try_extend_data_item(raw_frame,
                                               DataItemNew(D_DATA_ZONE, TU8(id_tag.zone)))
                     ELSE [err |-> "none", frame |-> raw_frame]
             tag == try_extend_data_item(zone.frame,
                        DataItemNew(D_DATA_TAG,
                            TVecU8(5, tag_num_indices_to_vec_u8(id_tag.num_tag, id_tag.indice_0,
                                                                id_tag.indice_1, id_tag.indice_2))))
             value == try_extend_data_item(tag.frame, DataItemNew(D_DATA_VALUE, t_value))
         IN  IF zone.err # "none" \/ tag.err # "none" \/ value.err # "none"
             THEN [raw_frame |-> tag.frame, notification_changes |-> notification_changes]
             ELSE MDataIn_fill_keeps_attempt(value.frame, Tail(notification_changes), id_tag.zone)

\* the loop of MDataIn::get_conversation: [raw_frame, notification_changes]
RECURSIVE MDataIn_fill(_, _, _)
MDataIn_fill(raw_frame, notification_changes, cur_zone) ==
    IF notification_changes = <<>>
    THEN [raw_frame |-> raw_frame, notification_changes |-> notification_changes]
    ELSE LET id_tag == notification_changes[1][1]
             t_value == notification_changes[1][2]
             zone == IF id_tag.zone # cur_zone
                     THEN try_extend_data_item(raw_frame,
                                               DataItemNew(D_DATA_ZONE, TU8(id_tag.zone)))
                     ELSE [err |-> "none", frame |-> raw_frame]
             tag == try_extend_data_item(zone.frame,
                        DataItemNew(D_DATA_TAG,
                            TVecU8(5, tag_num_indices_to_vec_u8(id_tag.num_tag, id_tag.indice_0,
                                                                id_tag.indice_1, id_tag.indice_2))))
             value == try_extend_data_item(tag.frame, DataItemNew(D_DATA_VALUE, t_value))
         IN  IF zone.err # "none" \/ tag.err # "none" \/ value.err # "none"
             THEN [raw_frame |-> raw_frame, notification_changes |-> notification_changes]
             ELSE MDataIn_fill(value.frame, Tail(notification_changes), id_tag.zone)

MDataIn_get_conversation(context, db, request_data_frame) ==
    IF get_tag(request_data_frame) \notin {AF_ALIVE, AF_DATA_IN}
    THEN Conversation(None, context, db)
    ELSE IF context.notification_changes = <<>>
    THEN Conversation(None, context, db)
    ELSE LET r == MDataIn_fill(new_message(IC_DATA_IN), context.notification_changes, 255)
         IN  Conversation(Some(r.raw_frame),
                          [context EXCEPT !.nb_data_in = @ + 1,
                                          !.notification_changes = r.notification_changes],
                          db)

\* a variant that queues the changes of the DATA_PACK tags too
MDataIn_notification_change_all_tags(context, id_user, id_tag, t_value) ==
    IF id_user # afsec_service.id_user
    THEN [context EXCEPT !.notification_changes = Append(@, <<id_tag, t_value>>)]
    ELSE context

MDataIn_notification_change(context, id_user, id_tag, t_value) ==
    IF id_user # afsec_service.id_user /\ id_tag.num_tag # TAG_DATA_PACK
    THEN [context EXCEPT !.notification_changes = Append(@, <<id_tag, t_value>>)]
    ELSE context

MDataOutTableIndex_get_conversation(context, db, request_data_frame) ==
    IF get_tag(request_data_frame) # AF_DATA_OUT_TABLE_INDEX
    THEN Conversation(None, context, db)
    ELSE LET data_items == get_data_items(request_data_frame)
             zones == {i \in 1..Len(data_items) : data_items[i].tag = D_DATA_ZONE}
         IN  IF zones = {}
             THEN Conversation(Some(new_nack), context, db)
             ELSE LET first == CHOOSE i \in zones : \A j \in zones : i <= j
                      cur_zone == u8_from(data_items[first].t_value)
                      f0 == new_message(IC_DATA_OUT_TABLE_INDEX)
                      f1 == try_extend_data_item(f0, DataItemNew(D_DATA_ZONE, TU8(cur_zone))).frame
                      f2 == try_extend_data_item(f1,
                                DataItemNew(D_DATA_FIRST_TABLE_INDEX,
                                            TU64(get_index_min(context.records, cur_zone)))).frame
                      f3 == try_extend_data_item(f2,
                                DataItemNew(D_DATA_FIRST_TABLE_INDEX,
                                            TU64(get_index_max(context.records, cur_zone)))).frame
                  IN  Conversation(Some(f3), context, db)

\* a variant that leaves AF_MENU without an answer
MMenu_get_conversation_silent(context, db, request_data_frame) ==
    IF get_tag(request_data_frame) # AF_MENU
    THEN Conversation(None, context, db)
    ELSE Conversation(Some(new(<<>>)), context, db)

MMenu_get_conversation(context, db, request_data_frame) ==
    IF get_tag(request_data_frame) # AF_MENU
    THEN Conversation(None, context, db)
    ELSE Conversation(Some(new_nack), context, db)

---------------------------------------------------------------------------
(* Middlewares: the list of middlewares and the dispatch of a request *)

\* a list where MDataIn comes before MPackIn
all_middlewares_data_in_first ==
    <<"MPackOut", "MDataIn", "MDataOut", "MPackIn", "MDataOutTableIndex", "MMenu">>

\* Middlewares::all_middlewares; IdMiddleware i is the entry i + 1
all_middlewares ==
    <<"MPackOut", "MPackIn", "MDataOut", "MDataIn", "MDataOutTableIndex", "MMenu">>

\* CommonMiddlewareTrait::reset_conversation of the middleware `name`
reset_conversation(name, context) ==
    IF name = "MDataOut" THEN MDataOut_reset_conversation(context) ELSE context

\* CommonMiddlewareTrait::get_conversation of the middleware `name`
get_conversation(name, context, db, request_data_frame, order) ==
    CASE name = "MPackOut" -> MPackOut_get_conversation(context, db, request_data_frame)
      [] name = "MPackIn" -> MPackIn_get_conversation(context, db, request_data_frame, order)
      [] name = "MDataOut" -> MDataOut_get_conversation(context, db, request_data_frame)
      [] name = "MDataIn" -> MDataIn_get_conversation(context, db, request_data_frame)
      [] name = "MDataOutTableIndex" ->
            MDataOutTableIndex_get_conversation(context, db, request_data_frame)
      [] name = "MMenu" -> MMenu_get_conversation(context, db, request_data_frame)

\* CommonMiddlewareTrait::notification_change of the middleware `name`
middleware_notification_change(name, context, id_user, id_tag, t_value) ==
    CASE name = "MPackIn" -> MPackIn_notification_change(context, id_user, id_tag, t_value)
      [] name = "MDataIn" -> MDataIn_notification_change(context, id_user, id_tag, t_value)
      [] OTHER -> context

RECURSIVE ResetFrom(_, _)
ResetFrom(id_middleware, context) ==
    IF id_middleware >= Len(all_middlewares) THEN context
    ELSE ResetFrom(id_middleware + 1,
                   reset_conversation(all_middlewares[id_middleware + 1], context))

reset_conversation_all_middlewares(context) == ResetFrom(0, context)

\* struct Middlewares
Middlewares(context, option_cur_middleware) ==
    [context |-> context, option_cur_middleware |-> option_cur_middleware]

\* Middlewares::new
MiddlewaresNew == Middlewares(ContextDefault, None)

\* the outcome of a request: the response, the Middlewares and the database
\* afterwards, and the calls made on the middlewares, in order
Handled(response, mw, db, calls) ==
    [response |-> response, middlewares |-> mw, db |-> db, trace |-> calls]

\* the loop of accept_conversation_all_middlewares: [reply, middlewares, db, trace]
RECURSIVE AcceptFrom(_, _, _, _, _, _)
AcceptFrom(id_middleware, mw, db, request_data_frame, order, calls) ==
    IF id_middleware >= Len(all_middlewares)
    THEN [reply |-> None, middlewares |-> mw, db |-> db, trace |-> calls]
    ELSE LET name == all_middlewares[id_middleware + 1]
             Accepted(c) ==
                 IF c.reply # None
                 THEN [reply |-> c.reply,
                       middlewares |-> Middlewares(c.context, Some(id_middleware)),
                       db |-> c.db, trace |-> Append(calls, name)]
                 ELSE AcceptFrom(id_middleware + 1,
                                 Middlewares(c.context, mw.option_cur_middleware),
                                 c.db, request_data_frame, order, Append(calls, name))
         IN  Accepted(get_conversation(name, mw.context, db, request_data_frame, order))

accept_conversation_all_middlewares(mw, db, request_data_frame, order) ==
    AcceptFrom(0, mw, db, request_data_frame, order, <<>>)

\* a variant where the middleware in conversation keeps it when it has no reply
cur_middleware_conversation_keeps_owner(mw, db, request_data_frame, order) ==
    IF mw.option_cur_middleware = None
    THEN [reply |-> None, middlewares |-> mw, db |-> db, trace |-> <<>>]
    ELSE LET name == all_middlewares[mw.option_cur_middleware[1] + 1]
             Conversed(c) ==
                 [reply |-> c.reply,
                  middlewares |-> Middlewares(c.context, mw.option_cur_middleware),
                  db |-> c.db, trace |-> <<name>>]
         IN  Conversed(get_conversation(name, mw.context, db, request_data_frame, order))

\* handle_request_data_frame, the middleware in conversation: the request is
\* given to it first, and it loses the conversation when it has no reply
cur_middleware_conversation(mw, db, request_data_frame, order) ==
    IF mw.option_cur_middleware = None
    THEN [reply |-> None, middlewares |-> mw, db |-> db, trace |-> <<>>]
    ELSE LET name == all_middlewares[mw.option_cur_middleware[1] + 1]
             Conversed(c) ==
                 [reply |-> c.reply,
                  middlewares |-> Middlewares(c.context,
                                              IF c.reply # None
                                              THEN mw.option_cur_middleware ELSE None),
                  db |-> c.db, trace |-> <<name>>]
         IN  Conversed(get_conversation(name, mw.context, db, request_data_frame, order))

\* a variant answering NACK to every request nobody takes
no_middleware_response_nack(request_data_frame) == new_nack

\* handle_request_data_frame, nobody for the conversation
no_middleware_response(request_data_frame) ==
    IF get_tag(request_data_frame) = AF_ALIVE THEN new_ack ELSE new_nack

\* Middlewares::handle_request_data_frame
handle_request_data_frame(mw, db, request_data_frame, order) ==
    IF get_tag(request_data_frame) = AF_INIT
    THEN LET Initialised(c) ==
                 Handled(IF c.reply # None THEN c.reply[1] ELSE new_nack,
                         Middlewares(c.context, mw.option_cur_middleware),
                         c.db, <<"reset", "MInit">>)
         IN  Initialised(MInit_get_conversation(
                             reset_conversation_all_middlewares(mw.context),
                             db, request_data_frame))
    ELSE LET Selected(cur, a) ==
                 Handled(IF a.reply # None THEN a.reply[1]
                         ELSE no_middleware_response(request_data_frame),
                         a.middlewares, a.db, cur.trace \o <<"reset">> \o a.trace)
             Conversed(cur) ==
                 IF cur.reply # None
                 THEN Handled(cur.reply[1], cur.middlewares, cur.db, cur.trace)
                 ELSE Selected(cur,
                               accept_conversation_all_middlewares(
                                   Middlewares(
                                       reset_conversation_all_middlewares(
                                           cur.middlewares.context),
                                       cur.middlewares.option_cur_middleware),
                                   cur.db, request_data_frame, order))
         IN  Conversed(cur_middleware_conversation(mw, db, request_data_frame, order))

\* a variant answering NACK to a frame that does not decode
handle_request_raw_frame_nack_on_error(mw, db, request_raw_frame, order) ==
    LET r == data_frame_try_from(request_raw_frame)
    IN  IF r.err = "none"
        THEN handle_request_data_frame(mw, db, r.data_frame, order)
        ELSE Handled(new_nack, mw, db, <<>>)

\* Middlewares::handle_request_raw_frame
handle_request_raw_frame(mw, db, request_raw_frame, order) ==
    LET r == data_frame_try_from(request_raw_frame)
    IN  IF r.err = "none"
        THEN handle_request_data_frame(mw, db, r.data_frame, order)
        ELSE Handled(new(<<>>), mw, db, <<>>)

RECURSIVE NotifyFrom(_, _, _, _, _)
NotifyFrom(id_middleware, context, id_user, id_tag, t_value) ==
    IF id_middleware >= Len(all_middlewares) THEN context
    ELSE NotifyFrom(id_middleware + 1,
                    middleware_notification_change(all_middlewares[id_middleware + 1],
                                                   context, id_user, id_tag, t_value),
                    id_user, id_tag, t_value)

\* a variant informing the middleware in conversation only
notification_change_cur_only(mw, id_user, id_tag, t_value) ==
    IF mw.option_cur_middleware = None THEN mw
    ELSE Middlewares(middleware_notification_change(
                         all_middlewares[mw.option_cur_middleware[1] + 1],
                         mw.context, id_user, id_tag, t_value),
                     mw.option_cur_middleware)

\* Middlewares::notification_change
notification_change(mw, id_user, id_tag, t_value) ==
    Middlewares(NotifyFrom(0, mw.context, id_user, id_tag, t_value),
                mw.option_cur_middleware)

\* a variant of the first loop that asks for the changes of the AFSEC+ user
\* too
RECURSIVE DrainChanges_with_own(_, _)
DrainChanges_with_own(db, vec_changes) ==
    LET g == get_change(db, afsec_service.id_user, TRUE, TRUE)
    IN  IF g.change = None
        THEN [db |-> g.db, vec_changes |-> vec_changes]
        ELSE LET tag == get_tag_from_id_tag(g.db, g.change[1].id_tag)
             IN  DrainChanges_with_own(g.db,
                     IF tag # None
                     THEN Append(vec_changes,
                                 <<g.change[1].id_user, g.change[1].id_tag,
                                   get_t_value_from_tag(g.db, tag[1])>>)
                     ELSE vec_changes)

\* the first loop of check_notification_changes: [db, vec_changes]
RECURSIVE DrainChanges(_, _)
DrainChanges(db, vec_changes) ==
    LET g == get_change(db, afsec_service.id_user, FALSE, TRUE)
    IN  IF g.change = None
        THEN [db |-> g.db, vec_changes |-> vec_changes]
        ELSE LET tag == get_tag_from_id_tag(g.db, g.change[1].id_tag)
             IN  DrainChanges(g.db,
                     IF tag # None
                     THEN Append(vec_changes,
                                 <<g.change[1].id_user, g.change[1].id_tag,
                                   get_t_value_from_tag(g.db, tag[1])>>)
                     ELSE vec_changes)

RECURSIVE NotifyChanges(_, _)
NotifyChanges(mw, vec_changes) ==
    IF vec_changes = <<>> THEN mw
    ELSE NotifyChanges(notification_change(mw, Head(vec_changes)[1], Head(vec_changes)[2],
                                           Head(vec_changes)[3]),
                       Tail(vec_changes))

\* afsec::check_notification_changes: [middlewares, db, vec_changes]
check_notification_changes(mw, db) ==
    LET d == DrainChanges(db, <<>>)
    IN  [middlewares |-> NotifyChanges(mw, d.vec_changes), db |-> d.db,
         vec_changes |-> d.vec_changes]

---------------------------------------------------------------------------
(* The RawFrame builder as a state machine *)

\* bytes received on the line: the control bytes and small tag / len values
Octets == {0, 1, STX, ETX, ACK, NACK}

\* tags given to new_message
MessageTags == {0, 132}

Fill(n) == [i \in 1..n |-> (7 * i) % U8Mod]

\* data items given to try_extend_data_item: encoded on 125 and 126 bytes, so
\* that two of them make a payload of 250, 251 or 252 bytes
FrameItems ==
    { DataItemNew(D_PACK_PAYLOAD, TVecU8(n, Fill(n))) : n \in {123, 124} }

NoItem == DataItemNew(0, TVecU8(0, <<>>))

VARIABLES
    middlewares,  \* the Middlewares: context and option_cur_middleware
    db,           \* the shared Database
    request,      \* RawFrame given to the last handle_request_raw_frame
    response,     \* RawFrame it returned
    trace,        \* calls it made on the middlewares, in order
    notified,     \* changes delivered by the last check_notification_changes
    ledger,       \* what the users of the database did and were given so far
    tasks         \* where each task is in its code, and the owner of the mutex

afsec_vars == <<middlewares, db, request, response, trace, notified, ledger, tasks>>

\* the arguments and the result of the last call on the database
Call(id_user, include_my_changes, include_anonymous_changes, word_address, vec_u8,
     elapsed, change) ==
    [id_user |-> id_user, include_my_changes |-> include_my_changes,
     include_anonymous_changes |-> include_anonymous_changes,
     word_address |-> word_address, vec_u8 |-> vec_u8, elapsed |-> elapsed,
     change |-> change]

NoCall == Call(0, FALSE, FALSE, 0, <<>>, None, None)

\* Nothing done yet. `kept` is the same ledger when nothing is ever purged,
\* `nb_calls` the number of calls writing the store, `call` the last call;
\* of the last PACK_IN transaction, `blocs` is set_blocs and `held` the store
\* when it started, `sent` the payloads of the D_PACK_PAYLOAD items replied
LedgerNew ==
    [kept |-> DatabaseDefault, nb_calls |-> 0, call |-> NoCall,
     blocs |-> {}, held |-> <<>>, sent |-> <<>>, flushed |-> {}]

\* the tasks that share the Mutex<Database>
TaskNames == {"serial", "watcher", "modbus"}

\* a move of a task: where it goes, and what it does to the mutex on the way
\* ("lock": thread_db.lock() returns its guard, "unlock": the guard goes out of
\* scope, "none")
Move(to, mutex) == [to |-> to, mutex |-> mutex]

\* a variant of the watcher whose guard is declared outside the inner loop and
\* lives through the sleep
database_watcher_process_keeps_guard(at, change) ==
    CASE at = "start" -> {Move("register", "lock")}
      [] at = "register" -> {Move("poll", "unlock")}
      [] at = "poll" -> {Move("get_change", "lock")}
      [] at = "get_change" ->
            IF change # None THEN {Move("poll", "unlock")} ELSE {Move("sleep", "none")}
      [] at = "sleep" -> {Move("poll", "none")}

\* database_watcher_process: the block that registers the user (lines 19-25),
\* the inner loop whose body locks, calls get_change and drops the guard at
\* the end of the iteration or at the break (28-56), the sleep (58)
database_watcher_process(at, change) ==
    CASE at = "start" -> {Move("register", "lock")}
      [] at = "register" -> {Move("poll", "unlock")}
      [] at = "poll" -> {Move("get_change", "lock")}
      [] at = "get_change" ->
            IF change # None THEN {Move("poll", "unlock")} ELSE {Move("sleep", "unlock")}
      [] at = "sleep" -> {Move("poll", "none")}

\* database_afsec_process: the block that registers the user (72-78), then the
\* loop: read_and_write, where the middlewares lock and unlock around each of
\* their accesses, the sleep (91), and check_notification_changes when it is
\* due, whose loop locks, calls get_change and drops the guard at the end of
\* the iteration or at the break (187-203)
database_afsec_process(at, change) ==
    CASE at = "open" -> {Move("register", "lock")}
      [] at = "register" -> {Move("read_and_write", "unlock")}
      [] at = "read_and_write" -> {Move("middleware", "lock"), Move("sleep", "none")}
      [] at = "middleware" -> {Move("read_and_write", "unlock")}
      [] at = "sleep" -> {Move("check", "none"), Move("read_and_write", "none")}
      [] at = "check" -> {Move("get_change", "lock")}
      [] at = "get_change" ->
            IF change # None THEN {Move("check", "unlock")}
            ELSE {Move("read_and_write", "unlock")}

\* the MODBUS/TCP service: the server awaits a request, Service::call locks
\* for the time of register_read or register_write (the guard is a temporary
\* of the call) and returns a future that is ready
modbus_call(at) ==
    CASE at = "read" -> {Move("call", "none")}
      [] at = "call" -> {Move("register", "lock")}
      [] at = "register" -> {Move("read", "unlock")}

\* the task awaits: a sleep, or a read or a write of its transport
IsSuspended(task, at) ==
    \/ task \in {"serial", "watcher"} /\ at = "sleep"
    \/ task = "modbus" /\ at = "read"

\* the tasks when they are spawned: nobody owns the mutex and nobody is
\* registered
TasksNew ==
    [at |-> [task \in TaskNames |->
                IF task = "serial" THEN "open"
                ELSE IF task = "watcher" THEN "start" ELSE "read"],
     owner |-> None,
     id_user |-> [task \in TaskNames |-> ID_ANONYMOUS_USER]]

InitAfsec ==
    /\ middlewares = MiddlewaresNew
    /\ db = afsec_service.db
    /\ request = Empty
    /\ response = Empty
    /\ trace = <<>>
    /\ notified = <<>>
    /\ ledger = LedgerNew
    /\ tasks = TasksNew

InitFrame ==
    /\ frame = Empty
    /\ stream = <<>>
    /\ fresh = TRUE
    /\ op = "new"
    /\ item = NoItem
    /\ result = "none"
    /\ InitAfsec

New ==
    /\ frame' = new(<<>>)
    /\ stream' = <<>>
    /\ fresh' = TRUE
    /\ op' = "new"
    /\ item' = NoItem
    /\ result' = "none"
    /\ UNCHANGED afsec_vars

Push ==
    \E octet \in Octets :
        /\ Len(encode(frame)) < MaxStream
        /\ frame' = push(frame, octet)
        /\ stream' = IF fresh THEN Append(stream, octet) ELSE stream
        /\ op' = "push"
        /\ item' = NoItem
        /\ result' = "none"
        /\ UNCHANGED afsec_vars
        /\ UNCHANGED fresh

NewAck ==
    /\ frame' = new_ack
    /\ stream' = <<>>
    /\ fresh' = FALSE
    /\ op' = "new_ack"
    /\ item' = NoItem
    /\ result' = "none"
    /\ UNCHANGED afsec_vars

NewNack ==
    /\ frame' = new_nack
    /\ stream' = <<>>
    /\ fresh' = FALSE
    /\ op' = "new_nack"
    /\ item' = NoItem
    /\ result' = "none"
    /\ UNCHANGED afsec_vars

NewMessage ==
    \E tag \in MessageTags :
        /\ frame' = new_message(tag)
        /\ stream' = <<>>
        /\ fresh' = FALSE
        /\ op' = "new_message"
        /\ item' = NoItem
        /\ result' = "none"
        /\ UNCHANGED afsec_vars

\* a frame brought back to Empty is RawFrame::default() again
RemoveJunk ==
    /\ frame' = remove_junk(frame)
    /\ stream' = <<>>
    /\ fresh' = (remove_junk(frame) = Empty)
    /\ op' = "remove_junk"
    /\ item' = NoItem
    /\ result' = "none"
    /\ UNCHANGED afsec_vars

TryExtendDataItem ==
    \E data_item \in FrameItems :
        LET r == try_extend_data_item(frame, data_item)
        IN  /\ frame' = r.frame
            /\ stream' = <<>>
            /\ fresh' = FALSE
            /\ op' = "try_extend_data_item"
            /\ item' = data_item
            /\ result' = r.err
            /\ UNCHANGED afsec_vars

NextFrame ==
    \/ New
    \/ Push
    \/ NewAck
    \/ NewNack
    \/ NewMessage
    \/ RemoveJunk
    \/ TryExtendDataItem

vars == <<frame_vars, afsec_vars>>

SpecFrame == InitFrame /\ [][NextFrame]_vars

---------------------------------------------------------------------------
(* The AFSEC+ communication as a state machine *)

\* requests the middlewares may count in nb_init, nb_pack_out, ...
MaxCount == 1

\* changes waiting in the ledger and in the DATA_IN queue
MaxChanges == 2

\* a message built as the middlewares build theirs
RECURSIVE MessageOf(_, _)
MessageOf(raw_frame, data_items) ==
    IF data_items = <<>> THEN raw_frame
    ELSE MessageOf(try_extend_data_item(raw_frame, Head(data_items)).frame, Tail(data_items))

\* the measure of the database, as the tag of a D_DATA_TAG item
MeasureTag == TVecU8(5, <<1, 2, 0, 0, 0>>)

\* requests of the AFSEC+ that decode into a DataFrame
ParsedRequests ==
    {new_message(tag) : tag \in {AF_ALIVE, AF_MENU, AF_TEST, AF_DATA_IN, AF_PACK_IN}}
    \cup {new_ack,
          new_message(AF_INIT),
          MessageOf(new_message(AF_DATA_OUT),
                    <<DataItemNew(D_DATA_ZONE, TU8(0)),
                      DataItemNew(D_DATA_TAG, MeasureTag),
                      DataItemNew(D_DATA_VALUE, TI16(1)),
                      DataItemNew(D_DATA_TAG, MeasureTag)>>),
          MessageOf(new_message(AF_DATA_OUT_TABLE_INDEX), <<DataItemNew(D_DATA_ZONE, TU8(2))>>)}

\* frames that do not: empty, being built, junk, and a message whose payload
\* stops in the middle of a data item
UnparsedRequests ==
    {new(<<>>), new(<<STX, AF_ALIVE, 1, 0>>), new(<<0>>),
     new(<<STX, AF_DATA_OUT, 1, D_DATA_ZONE,
           calcul_xor(AF_DATA_OUT, 1, <<D_DATA_ZONE>>), ETX>>)}

Requests == ParsedRequests \cup UnparsedRequests

\* the orders in which a HashSet holding `set` can be iterated
Orders(set) ==
    {order \in [1..Cardinality(set) -> set] :
        \A i, j \in 1..Cardinality(set) : i # j => order[i] # order[j]}

\* requests counted by the middlewares so far
Counted(context) ==
    context.nb_init + context.nb_pack_out + context.nb_pack_in
    + context.nb_data_out + context.nb_data_in

\* tags written by the other users of the database, and the bytes they write
WrittenTags ==
    {IdTag(0, 258, 0, 0, 0), IdTag(5, TAG_DATA_PACK, 0, 0, 0)}

WrittenValues == {<<0, 1>>}

Init ==
    /\ InitAfsec
    /\ frame = Empty
    /\ stream = <<>>
    /\ fresh = TRUE
    /\ op = "new"
    /\ item = NoItem
    /\ result = "none"

\* the AFSEC+ process is between two turns of its loop
Idle == op = "new"

\* the clock read by is_same_as_last_change during an operation: `recent` when
\* it starts less than DURATION_CHANGE_FILTER_SECS after date_last_change
Clock(database, recent) == [database EXCEPT !.date_recent = recent]

\* the readings of the clock that matter to an operation writing as id_user:
\* it is read only when the last change recorded is one of id_user
Clocks(database, id_user) ==
    IF /\ database.vec_changes # <<>>
       /\ database.vec_changes[Len(database.vec_changes)].id_user = id_user
    THEN BOOLEAN
    ELSE {TRUE}

\* the AFSEC+ process receives a frame and answers it
HandleRequest ==
    \E request_raw_frame \in Requests :
        \E order \in Orders(middlewares.context.pack_in.set_blocs),
           recent \in Clocks(db, afsec_service.id_user) :
            LET Answered(h) ==
                    /\ Idle
                    /\ Counted(h.middlewares.context) <= MaxCount
                    /\ middlewares' = h.middlewares
                    /\ db' = Clock(h.db, TRUE)
                    /\ request' = request_raw_frame
                    /\ response' = h.response
                    /\ trace' = h.trace
                    /\ op' = "handle_request_raw_frame"
                    /\ UNCHANGED <<notified, ledger, frame, stream, fresh, item, result, tasks>>
            IN  Answered(handle_request_raw_frame(middlewares, Clock(db, recent),
                                                  request_raw_frame, order))

\* the AFSEC+ process polls the ledger and informs the middlewares
CheckNotificationChanges ==
    LET c == check_notification_changes(middlewares, db)
    IN  /\ Idle
        /\ middlewares' = c.middlewares
        /\ db' = c.db
        /\ notified' = c.vec_changes
        /\ op' = "check_notification_changes"
        /\ UNCHANGED <<request, response, trace, ledger, frame, stream, fresh, item, result, tasks>>

\* the AFSEC+ process writes the response to the port and sleeps: the turn is
\* over, what it held is dropped
Sleep ==
    /\ ~Idle
    /\ request' = Empty
    /\ response' = Empty
    /\ trace' = <<>>
    /\ notified' = <<>>
    /\ op' = "new"
    /\ UNCHANGED <<middlewares, db, ledger, frame, stream, fresh, item, result, tasks>>

\* another user of the database (anonymous) writes a tag; the end of a turn of
\* the AFSEC+ process touches nothing shared, the write is taken after it
ExternalWrite ==
    \E id_tag \in WrittenTags, value \in WrittenValues,
       recent \in Clocks(db, ID_ANONYMOUS_USER) :
        /\ Idle
        /\ Len(db.vec_changes) + Len(middlewares.context.notification_changes) < MaxChanges
        /\ db' = Clock(set_vec_u8_to_id_tag(Clock(db, recent), ID_ANONYMOUS_USER,
                                            id_tag, value), TRUE)
        /\ UNCHANGED <<middlewares, request, response, trace, notified, ledger, frame_vars, tasks>>

Next ==
    \/ HandleRequest
    \/ CheckNotificationChanges
    \/ Sleep
    \/ ExternalWrite

Spec == Init /\ [][Next]_vars

---------------------------------------------------------------------------
(* The users of the Database as a state machine *)

\* changes appended to the ledger at most
MaxWrites == 2

DURATION_CHANGE_FILTER_SECS == 1

\* Duration: nanoseconds of a second, and 2^24, the first integer where an
\* f32 (24 bits of mantissa) stops holding every integer
NANOS_PER_SEC == 1000000000
F32_EXACT == 16777216

Duration(secs, nanos) == [secs |-> secs, nanos |-> nanos]

\* the gap between two f32 around the integer x
RECURSIVE F32Ulp(_)
F32Ulp(x) == IF x < F32_EXACT THEN 1 ELSE 2 * F32Ulp(x \div 2)

\* `x as f32` for an integer: the nearest f32, ties to the even mantissa
as_f32(x) ==
    LET ulp == F32Ulp(x)
        q == x \div ulp
        r == x % ulp
    IN  IF (2 * r < ulp) \/ (2 * r = ulp /\ q % 2 = 0) THEN q * ulp ELSE (q + 1) * ulp

\* is_same_as_last_change, the clock: `elapsed` is the Result of duration_since
\* (None for Err) and as_secs_f32 is secs as f32 + nanos as f32 / 1e9 as f32,
\* below DURATION_CHANGE_FILTER_SECS exactly when nanos as f32 is below the
\* nanoseconds left to it
is_elapsed_in_filter(elapsed) ==
    /\ elapsed # None
    /\ elapsed[1].secs < DURATION_CHANGE_FILTER_SECS
    /\ as_f32(elapsed[1].nanos)
         < (DURATION_CHANGE_FILTER_SECS - elapsed[1].secs) * NANOS_PER_SEC

\* readings of the clock: set back (Err), half a second later, 10 ns before
\* the second, and two seconds later
Elapsed ==
    {None, Some(Duration(0, 500000000)), Some(Duration(0, 999999990)),
     Some(Duration(2, 0))}

\* the readings that matter to a write of id_user (see Clocks)
ElapsedFor(database, id_user) ==
    IF BOOLEAN \subseteq Clocks(database, id_user) THEN Elapsed ELSE {Some(Duration(2, 0))}

\* the ids given to the database, registered or not yet: the anonymous user
\* and two threads
UserIds == {ID_ANONYMOUS_USER, 1, 2}

\* add_change in a ledger where nothing is ever purged
keep_change(database, change) ==
    IF ~is_same_as_last_change(database, change) /\ is_some_users_use_notification(database)
    THEN [database EXCEPT !.vec_changes = Append(@, change), !.date_recent = TRUE]
    ELSE database

\* changes removed from vec_changes so far
Purged == Len(ledger.kept.vec_changes) - Len(db.vec_changes)

InitUsers ==
    /\ middlewares = MiddlewaresNew
    /\ db = DatabaseDefault
    /\ request = Empty
    /\ response = Empty
    /\ trace = <<>>
    /\ notified = <<>>
    /\ ledger = LedgerNew
    /\ tasks = TasksNew
    /\ frame = Empty
    /\ stream = <<>>
    /\ fresh = TRUE
    /\ op = "new"
    /\ item = NoItem
    /\ result = "none"

users_unchanged == <<middlewares, request, response, trace, notified,
                     frame, stream, fresh, item, result, tasks>>

\* a thread registers as a user of the database
GetIdUser ==
    \E use_notification \in BOOLEAN :
        /\ Len(db.vec_users) < Cardinality(UserIds)
        /\ db' = get_id_user(db, "user", use_notification).db
        /\ ledger' = [ledger EXCEPT
                         !.kept = get_id_user(@, "user", use_notification).db,
                         !.call = Call(Len(db.vec_users), use_notification, FALSE, 0,
                                       <<>>, None, None)]
        /\ op' = "get_id_user"
        /\ UNCHANGED users_unchanged

\* a user writes a tag: set_vec_u8_to_word_address calls user_write_tag on it
SetVecU8ToIdTag ==
    \E id_user \in UserIds, id_tag \in WrittenTags, value \in WrittenValues :
        \E elapsed \in ElapsedFor(db, id_user) :
            /\ Len(ledger.kept.vec_changes) < MaxWrites
            /\ db' = Clock(set_vec_u8_to_id_tag(Clock(db, is_elapsed_in_filter(elapsed)),
                                                id_user, id_tag, value), TRUE)
            /\ ledger' = [ledger EXCEPT
                             !.kept = Clock(keep_change(
                                                Clock(@, is_elapsed_in_filter(elapsed)),
                                                NotificationChange(id_user, id_tag)), TRUE),
                             !.call = Call(id_user, FALSE, FALSE, 0, <<id_tag>>,
                                           elapsed, None)]
            /\ op' = "set_vec_u8_to_id_tag"
            /\ UNCHANGED users_unchanged

\* a user polls the ledger
GetChange ==
    \E id_user \in UserIds, include_my_changes \in BOOLEAN,
       include_anonymous_changes \in BOOLEAN :
        /\ db' = get_change(db, id_user, include_my_changes, include_anonymous_changes).db
        /\ ledger' = [ledger EXCEPT
                         !.kept = get_change(@, id_user, include_my_changes,
                                             include_anonymous_changes).db,
                         !.call = Call(id_user, include_my_changes,
                                       include_anonymous_changes, 0, <<>>, None,
                                       get_change(db, id_user, include_my_changes,
                                                  include_anonymous_changes).change)]
        /\ op' = "get_change"
        /\ UNCHANGED users_unchanged

NextUsers ==
    \/ GetIdUser
    \/ SetVecU8ToIdTag
    \/ GetChange

SpecUsers == InitUsers /\ [][NextUsers]_vars

---------------------------------------------------------------------------
(* The accesses to the store of the Database as a state machine *)

\* calls writing the store at most
MaxStores == 2

\* where the writes start: on a tag, between two tags, inside a tag
WrittenAddresses == {0, 2, 15, 16, 257}

\* what they write: a byte, two words, seventeen words
WrittenBytes == {<<1>>, <<0, 0, 0, 1>>, [i \in 1..34 |-> 1]}

\* tags given to the typed accessors: the measure and a tag never declared
TypedTags == {IdTag(0, 258, 0, 0, 0), IdTag(0, 999, 0, 0, 0)}

\* values given to them
TypedValues == {TBool(TRUE), TU8(1), TI16(1), TVecU8(2, <<1, 1>>)}

\* the typed getters get_<T>_from_id_tag, T the TFormat of the value returned
get_from_id_tag(database, t_format, id_tag) ==
    IF get_tag_from_id_tag(database, id_tag) # None
    THEN get_t_value_from_tag(database,
                              DbTag(get_tag_from_id_tag(database, id_tag)[1].word_address,
                                    id_tag, t_format))
    ELSE TValue(t_format.k, t_format.n, 0, <<>>)

\* a reader is registered and never polls: with the clock a second later at
\* every write, vec_changes holds the calls of user_write_tag, in order
InitStore ==
    /\ middlewares = MiddlewaresNew
    /\ db = get_id_user(DatabaseDefault, "reader", TRUE).db
    /\ request = Empty
    /\ response = Empty
    /\ trace = <<>>
    /\ notified = <<>>
    /\ ledger = LedgerNew
    /\ tasks = TasksNew
    /\ frame = Empty
    /\ stream = <<>>
    /\ fresh = TRUE
    /\ op = "new"
    /\ item = NoItem
    /\ result = "none"

\* a user writes bytes at a word address
SetVecU8ToWordAddress ==
    \E id_user \in {ID_ANONYMOUS_USER, Len(db.vec_users)},
       word_address \in WrittenAddresses, vec_u8 \in WrittenBytes :
        /\ ledger.nb_calls < MaxStores
        /\ db' = set_vec_u8_to_word_address(Clock(db, FALSE), id_user, word_address, vec_u8)
        /\ ledger' = [ledger EXCEPT
                         !.nb_calls = @ + 1,
                         !.call = Call(id_user, FALSE, FALSE, word_address, vec_u8,
                                       None, None)]
        /\ op' = "set_vec_u8_to_word_address"
        /\ UNCHANGED users_unchanged

\* a user gives a typed value to the setter of its type
UpdateDatabase ==
    \E id_user \in {ID_ANONYMOUS_USER, Len(db.vec_users)},
       id_tag \in TypedTags, t_value \in TypedValues :
        /\ ledger.nb_calls < MaxStores
        /\ db' = update_database(Clock(db, FALSE), id_user, id_tag, t_value)
        /\ ledger' = [ledger EXCEPT
                         !.nb_calls = @ + 1,
                         !.call = Call(id_user, FALSE, FALSE, 0, <<id_tag, t_value>>,
                                       None, None)]
        /\ op' = "update_database"
        /\ UNCHANGED users_unchanged

NextStore ==
    \/ SetVecU8ToWordAddress
    \/ UpdateDatabase

SpecStore == InitStore /\ [][NextStore]_vars

---------------------------------------------------------------------------
(* The AF_DATA_OUT conversations as a state machine *)

\* AF_DATA_OUT frames received at most
MaxDataOut == 2

\* the application number of the database, as the tag of a D_DATA_TAG item
NumberTag == TVecU8(5, <<0, 16, 0, 0, 0>>)

DataOutZones == {DataItemNew(D_DATA_ZONE, TU8(zone)) : zone \in {0, 1}}
DataOutTags == {DataItemNew(D_DATA_TAG, t_value) : t_value \in {MeasureTag, NumberTag}}
DataOutValues == {DataItemNew(D_DATA_VALUE, TI16(value)) : value \in {1, 2}}
DataOutTableIndexes == {DataItemNew(D_DATA_TABLE_INDEX, TU64(1))}

\* the data items of the frames received: a zone or a table index or neither,
\* then no, one or two pairs of a tag and a value (the values of two pairs
\* differ), then a tag or nothing
DataOutFrames ==
    {head \o pairs \o tail :
        head \in {<<>>} \cup {<<data_item>> : data_item \in DataOutZones \cup DataOutTableIndexes},
        pairs \in {<<>>}
                  \cup {<<tag, value>> : tag \in DataOutTags, value \in DataOutValues}
                  \cup {<<tag_1, DataItemNew(D_DATA_VALUE, TI16(1)),
                           tag_2, DataItemNew(D_DATA_VALUE, TI16(2))>> :
                            tag_1 \in DataOutTags, tag_2 \in DataOutTags},
        tail \in {<<>>} \cup {<<data_item>> : data_item \in DataOutTags}}

\* the AFSEC+ process receives an AF_DATA_OUT frame and answers it
DataOut ==
    \E data_items \in DataOutFrames :
        \E recent \in Clocks(db, afsec_service.id_user) :
            LET Answered(raw_frame, h) ==
                    /\ middlewares.context.nb_data_out < MaxDataOut
                    /\ middlewares' = h.middlewares
                    /\ db' = Clock(h.db, TRUE)
                    /\ request' = raw_frame
                    /\ response' = h.response
                    /\ trace' = h.trace
                    /\ ledger' = [ledger EXCEPT
                                     !.call = Call(afsec_service.id_user, FALSE, FALSE, 0,
                                                   data_items, None, None)]
                    /\ op' = "handle_request_raw_frame"
                    /\ UNCHANGED <<notified, frame, stream, fresh, item, result, tasks>>
                Received(raw_frame) ==
                    Answered(raw_frame,
                             handle_request_raw_frame(middlewares, Clock(db, recent),
                                                      raw_frame, <<>>))
            IN  Received(MessageOf(new_message(AF_DATA_OUT), data_items))

NextDataOut == DataOut

SpecDataOut == Init /\ [][NextDataOut]_vars

---------------------------------------------------------------------------
(* The AF_DATA_IN conversations as a state machine *)

\* changes notified to the middlewares at most
MaxQueued == 3

\* the tags of the changes notified, in two zones, and their values: a value
\* of 110 bytes makes an entry of 119 bytes, 122 with its zone
QueuedTags == {IdTag(0, 258, 0, 0, 0), IdTag(0, 16, 0, 0, 0), IdTag(1, 258, 0, 0, 0)}
QueuedValues == {TI16(1), TVecU8(110, Fill(110))}

\* check_notification_changes informs the middlewares of a change made by
\* another user
NotifyChange ==
    \E id_tag \in QueuedTags, t_value \in QueuedValues :
        /\ ledger.nb_calls < MaxQueued
        /\ middlewares' = notification_change(middlewares, ID_ANONYMOUS_USER, id_tag, t_value)
        /\ ledger' = [ledger EXCEPT
                         !.nb_calls = @ + 1,
                         !.call = Call(ID_ANONYMOUS_USER, FALSE, FALSE, 0,
                                       <<id_tag, t_value>>, None, None)]
        /\ op' = "notification_change"
        /\ UNCHANGED <<db, request, response, trace, notified, frame, stream, fresh,
                       item, result, tasks>>

\* the AFSEC+ process receives AF_ALIVE or AF_DATA_IN and answers it
DataIn ==
    \E tag \in {AF_ALIVE, AF_DATA_IN} :
        LET Answered(h) ==
                /\ middlewares' = h.middlewares
                /\ db' = h.db
                /\ request' = new_message(tag)
                /\ response' = h.response
                /\ trace' = h.trace
                /\ op' = "handle_request_raw_frame"
                /\ UNCHANGED <<notified, ledger, frame, stream, fresh, item, result, tasks>>
        IN  Answered(handle_request_raw_frame(middlewares, db, new_message(tag), <<>>))

NextDataIn ==
    \/ NotifyChange
    \/ DataIn

SpecDataIn == Init /\ [][NextDataIn]_vars

---------------------------------------------------------------------------
(* The PACK_IN transactions as a state machine *)

\* writes of a bloc of the PACK_IN area, once the AFSEC+ process runs, at most
MaxBlocWrites == 1

\* the blocs written before the AFSEC+ process starts
StartBlocs == {{}, {0}, {0, 1, 2, 3}}

\* the blocs written once the AFSEC+ process runs
RewrittenBlocs == {3}

\* the database after another user wrote the first word of each bloc of
\* `blocs`, a second or more apart
RECURSIVE BlocsWritten(_, _)
BlocsWritten(database, blocs) ==
    IF blocs = {} THEN database
    ELSE LET bloc == CHOOSE b \in blocs : \A c \in blocs : b <= c
         IN  BlocsWritten(
                 set_vec_u8_to_id_tag(Clock(database, FALSE), ID_ANONYMOUS_USER,
                                      IdTag(5, TAG_DATA_PACK, 0, 0, bloc), <<bloc + 1, 0>>),
                 blocs \ {bloc})

\* the payloads of the data items of a payload whose formats are VecU8
RECURSIVE PayloadsOf(_)
PayloadsOf(values) ==
    IF Len(values) < 2 \/ values[2] < 128 \/ Len(values) < (values[2] - 128) + 2
    THEN <<>>
    ELSE <<SubSeq(values, 3, (values[2] - 128) + 2)>>
         \o PayloadsOf(SubSeqFrom(values, (values[2] - 128) + 3))

\* the AFSEC+ process starts after some blocs were written, and was informed
\* of these changes by check_notification_changes
InitPackIn ==
    /\ \E blocs \in StartBlocs :
          LET Checked(c) == middlewares = c.middlewares /\ db = c.db
          IN  Checked(check_notification_changes(
                          MiddlewaresNew, BlocsWritten(afsec_service.db, blocs)))
    /\ request = Empty
    /\ response = Empty
    /\ trace = <<>>
    /\ notified = <<>>
    /\ ledger = LedgerNew
    /\ tasks = TasksNew
    /\ frame = Empty
    /\ stream = <<>>
    /\ fresh = TRUE
    /\ op = "new"
    /\ item = NoItem
    /\ result = "none"

\* another user writes the first word of a bloc, more than a second after the
\* write before; the value written tells the writes apart
WriteBloc ==
    \E bloc \in RewrittenBlocs :
        /\ ledger.nb_calls < MaxBlocWrites
        /\ db' = Clock(set_vec_u8_to_id_tag(Clock(db, FALSE), ID_ANONYMOUS_USER,
                                            IdTag(5, TAG_DATA_PACK, 0, 0, bloc),
                                            <<0, ledger.nb_calls + 1>>), TRUE)
        /\ ledger' = [ledger EXCEPT !.nb_calls = @ + 1]
        /\ op' = "set_vec_u8_to_id_tag"
        /\ UNCHANGED <<middlewares, request, response, trace, notified, frame, stream,
                       fresh, item, result, tasks>>

\* the AFSEC+ process polls the ledger and informs the middlewares
CheckChanges ==
    LET Checked(c) ==
            /\ db.vec_changes # <<>>
            /\ middlewares' = c.middlewares
            /\ db' = c.db
            /\ notified' = c.vec_changes
            /\ op' = "check_notification_changes"
            /\ UNCHANGED <<request, response, trace, ledger, frame, stream, fresh, item,
                           result, tasks>>
    IN  Checked(check_notification_changes(middlewares, db))

\* the AFSEC+ process receives AF_ALIVE or AF_PACK_IN and answers it
PackIn ==
    \E tag \in {AF_ALIVE, AF_PACK_IN} :
        \E order \in Orders(middlewares.context.pack_in.set_blocs) :
            LET starts == /\ ~middlewares.context.pack_in.is_transaction
                          /\ middlewares.context.pack_in.set_blocs # {}
                Answered(h) ==
                    /\ middlewares' = h.middlewares
                    /\ db' = h.db
                    /\ request' = new_message(tag)
                    /\ response' = h.response
                    /\ trace' = h.trace
                    /\ ledger' =
                         IF starts
                         THEN [ledger EXCEPT
                                  !.blocs = middlewares.context.pack_in.set_blocs,
                                  !.held = db.vec_u8,
                                  !.sent = PayloadsOf(h.response.values)]
                         ELSE [ledger EXCEPT !.sent = @ \o PayloadsOf(h.response.values)]
                    /\ op' = "handle_request_raw_frame"
                    /\ UNCHANGED <<notified, frame, stream, fresh, item, result, tasks>>
            IN  Answered(handle_request_raw_frame(middlewares, db, new_message(tag), order))

NextPackIn ==
    \/ WriteBloc
    \/ CheckChanges
    \/ PackIn

SpecPackIn == InitPackIn /\ [][NextPackIn]_vars

---------------------------------------------------------------------------
(* Properties of the RawFrame builder *)

\* STX tag len payload[len] xor ETX, xor being tag ^ len ^ payload bytes
IsMessageFrame(s) ==
    /\ Len(s) >= 5
    /\ s[1] = STX
    /\ Len(s) = s[3] + 5
    /\ s[Len(s) - 1] = XorRange(s, 2, Len(s) - 2)
    /\ s[Len(s)] = ETX

IsValidFrame(s) == s = <<ACK>> \/ s = <<NACK>> \/ IsMessageFrame(s)

\* the checksum of a frame's fields, computed on the bytes
XorOfFields(f) == XorRange(<<f.tag, f.len>> \o f.values, 1, 2 + Len(f.values))

\* C1: for the bytes `stream` pushed one at a time into a fresh builder, the
\* state is Ok exactly when `stream` is a complete valid frame (ACK, NACK or
\* STX tag len payload xor ETX); no proper prefix of a message frame is Ok;
\* and an Ok frame encodes back to `stream`.
C1_PushDecodesExactlyValidFrames ==
    fresh =>
        /\ frame = new(stream)
        /\ (get_state(frame) = "Ok") <=> IsValidFrame(stream)
        /\ IsMessageFrame(stream) =>
              \A k \in 0..(Len(stream) - 1) :
                  get_state(new(SubSeq(stream, 1, k))) # "Ok"
        /\ (get_state(frame) = "Ok") => (encode(frame) = stream)

\* a message frame carrying one payload byte has been pushed and accepted
C1_Witness ==
    /\ fresh
    /\ op = "push"
    /\ IsMessageFrame(stream)
    /\ stream[3] = 1
    /\ get_state(frame) = "Ok"
    /\ encode(frame) = stream

\* C2: every Ok frame, every frame part of an OkAndJunk and every Xor frame
\* has len equal to the number of payload bytes and xor equal to
\* tag ^ len ^ payload bytes.
C2_OkFramesAreConsistent ==
    frame.v \in {"Ok", "OkAndJunk", "Xor"} =>
        /\ frame.len = Len(frame.values)
        /\ frame.xor = XorOfFields(frame)

\* an accepted frame with a payload, built by push or by try_extend_data_item
C2_Witness ==
    /\ frame.v \in {"Ok", "OkAndJunk"}
    /\ frame.len > 0
    /\ op \in {"push", "try_extend_data_item"}
    /\ frame.len = Len(frame.values)

Forward(from, to) ==
    /\ to # "Empty"
    /\ (from = "Building") => (to \in {"Building", "Ok", "Junk"})
    /\ (from = "Ok") => (to = "Junk")
    /\ (from = "Junk") => (to = "Junk")

\* C3: a push only moves the state forward: Building to Building, Ok or Junk,
\* Ok to Junk, Junk to Junk, and never to Empty.
C3_PushMovesForward ==
    [][op' = "push" => Forward(get_state(frame), get_state(frame'))]_vars

\* a byte pushed after a complete message frame has turned Ok into Junk
C3_Witness ==
    /\ fresh
    /\ op = "push"
    /\ Len(stream) = 6
    /\ get_state(new(SubSeq(stream, 1, 5))) = "Ok"
    /\ get_state(frame) = "Junk"

\* C4: try_extend_data_item on an Ok message: when the new len exceeds 250 it
\* fails with MaxLengthOverflow and leaves the frame unchanged; otherwise the
\* item's bytes are appended and len and xor are updated.  On any other frame
\* it fails and leaves the frame unchanged.
C4_TryExtendDataItem ==
    [][op' = "try_extend_data_item" =>
          LET bytes == data_item_encode(item')
          IN  IF frame.v = "Ok"
              THEN IF frame.len + Len(bytes) > RAW_FRAME_MAX_LEN
                   THEN result' = "MaxLengthOverflow" /\ frame' = frame
                   ELSE /\ result' = "none"
                        /\ frame'.v = "Ok"
                        /\ frame'.tag = frame.tag
                        /\ frame'.values = frame.values \o bytes
                        /\ frame'.len = frame.len + Len(bytes)
                        /\ frame'.xor = XorOfFields(frame')
              ELSE result' \notin {"none", "MaxLengthOverflow"} /\ frame' = frame]_vars

\* an item that would bring the payload to 251 bytes has been refused
C4_Witness ==
    /\ op = "try_extend_data_item"
    /\ result = "MaxLengthOverflow"
    /\ frame.v = "Ok"
    /\ frame.len + Len(data_item_encode(item)) = RAW_FRAME_MAX_LEN + 1

\* an item that brings the payload to exactly 250 bytes has been appended
C4_WitnessFull ==
    /\ op = "try_extend_data_item"
    /\ result = "none"
    /\ frame.len = RAW_FRAME_MAX_LEN


---------------------------------------------------------------------------
(* Properties of the dispatch of a request by Middlewares *)

\* the order of Middlewares::all_middlewares, as documented
FixedOrder ==
    <<"MPackOut", "MPackIn", "MDataOut", "MDataIn", "MDataOutTableIndex", "MMenu">>

\* the step is a call of handle_request_raw_frame
IsHandle == op' = "handle_request_raw_frame"

\* the step is such a call with a frame that decodes into a DataFrame
IsHandleParsed == IsHandle /\ data_frame_try_from(request').err = "none"

\* the DataFrame of a RawFrame that decodes
Parsed(raw_frame) == data_frame_try_from(raw_frame).data_frame

\* the iteration order of context.pack_in.set_blocs met by start_transaction
OrderOf(context) == CHOOSE order \in Orders(context.pack_in.set_blocs) : TRUE

\* the reply of the middleware `name` to the request in a context
ReplyOf(name, context, database, raw_frame) ==
    get_conversation(name, context, database, Parsed(raw_frame), OrderOf(context))

\* the reply of the middleware in conversation, a None reply when there is none
ReplyOfCur(mw, database, raw_frame) ==
    IF mw.option_cur_middleware = None
    THEN Conversation(None, mw.context, database)
    ELSE ReplyOf(FixedOrder[mw.option_cur_middleware[1] + 1], mw.context, database, raw_frame)

\* C5: when the request RawFrame does not convert to a DataFrame (Empty,
\* being built, junk, or an Ok message whose payload does not decode),
\* handle_request_raw_frame returns the Empty frame, whose encoding has no
\* byte, consults no middleware, and leaves the Context,
\* option_cur_middleware and the database as they were
C5_UndecodedRequestIsIgnored ==
    [][(IsHandle /\ data_frame_try_from(request').err # "none")
        => /\ response' = Empty
           /\ encode(response') = <<>>
           /\ trace' = <<>>
           /\ middlewares' = middlewares
           /\ db' = db]_vars

\* an Ok message with a truncated data item was received while MDataIn was
\* in conversation and changes were waiting: nothing was answered
C5_Witness ==
    /\ op = "handle_request_raw_frame"
    /\ get_state(request) = "Ok"
    /\ data_frame_try_from(request).err # "none"
    /\ response = Empty
    /\ middlewares.option_cur_middleware # None
    /\ middlewares.context.notification_changes # <<>>

\* C6: for a request whose tag is not AF_INIT while option_cur_middleware is
\* Some(i), middleware i is consulted first; if it replies, its reply is the
\* response, nothing is reset, nobody else is consulted and
\* option_cur_middleware stays Some(i); if it does not, the conversation is
\* reset and the middlewares are tried from a cleared option_cur_middleware,
\* which stays None when nobody replies
C6_CurMiddlewareFirst ==
    [][(/\ IsHandleParsed
        /\ get_tag(Parsed(request')) # AF_INIT
        /\ middlewares.option_cur_middleware # None)
        => LET i == middlewares.option_cur_middleware[1]
               c == ReplyOfCur(middlewares, db, request')
           IN  /\ Head(trace') = FixedOrder[i + 1]
               /\ c.reply # None
                    => /\ response' = c.reply[1]
                       /\ trace' = <<FixedOrder[i + 1]>>
                       /\ middlewares' = Middlewares(c.context, Some(i))
                       /\ \E recent \in BOOLEAN :
                            db' = Clock(ReplyOfCur(middlewares, Clock(db, recent),
                                                   request').db, TRUE)
               /\ c.reply = None
                    => /\ Len(trace') >= 3
                       /\ trace'[2] = "reset"
                       /\ \A k \in 3..Len(trace') : trace'[k] = FixedOrder[k - 2]
                       /\ \/ middlewares'.option_cur_middleware = Some(Len(trace') - 3)
                          \/ /\ middlewares'.option_cur_middleware = None
                             /\ Len(trace') = 8]_vars

\* the middleware in conversation kept it with a reply
C6_Witness ==
    /\ op = "handle_request_raw_frame"
    /\ Len(trace) = 1
    /\ trace[1] \in {"MDataIn", "MMenu"}
    /\ middlewares.option_cur_middleware # None
    /\ response # Empty

\* the middleware in conversation had no reply and another one took over
C6_WitnessFallThrough ==
    /\ op = "handle_request_raw_frame"
    /\ Len(trace) >= 3
    /\ trace[1] # "reset"
    /\ trace[2] = "reset"
    /\ middlewares.option_cur_middleware # None
    /\ FixedOrder[middlewares.option_cur_middleware[1] + 1] # trace[1]

\* the context the middlewares are tried on: the one left by the middleware
\* that lost the conversation, after reset_conversation of every middleware
SelectContext(mw, database, raw_frame) ==
    reset_conversation_all_middlewares(ReplyOfCur(mw, database, raw_frame).context)

\* nobody is in conversation, or the middleware in conversation has no reply
NobodyInConversation(mw, database, raw_frame) ==
    ReplyOfCur(mw, database, raw_frame).reply = None

\* C7: for a request other than AF_INIT, when no middleware owns the
\* conversation (there is none, or it has just given it up), every
\* middleware is reset and the middlewares are then tried in the order
\* PackOut, PackIn, DataOut, DataIn, DataOutTableIndex, Menu: those before
\* the first one with a reply are consulted and have none, the first one with
\* a reply supplies the response and becomes option_cur_middleware, nobody
\* after it is consulted.  An AF_ALIVE arriving while PACK_IN blocs and
\* DATA_IN changes are both waiting is answered with IC_PACK_IN
C7_OrderedSelection ==
    [][(/\ IsHandleParsed
        /\ get_tag(Parsed(request')) # AF_INIT
        /\ NobodyInConversation(middlewares, db, request'))
        => LET pre == IF middlewares.option_cur_middleware = None THEN 0 ELSE 1
               n == Len(trace') - pre - 1
               context == SelectContext(middlewares, db, request')
               database == ReplyOfCur(middlewares, db, request').db
           IN  /\ n \in 1..Len(FixedOrder)
               /\ trace'[pre + 1] = "reset"
               /\ \A k \in 1..n : trace'[pre + 1 + k] = FixedOrder[k]
               /\ \A k \in 1..(n - 1) :
                    ReplyOf(FixedOrder[k], context, database, request').reply = None
               /\ LET c == ReplyOf(FixedOrder[n], context, database, request')
                  IN  IF c.reply # None
                      THEN /\ response' = c.reply[1]
                           /\ middlewares' = Middlewares(c.context, Some(n - 1))
                           /\ \E recent \in BOOLEAN :
                                db' = Clock(ReplyOf(FixedOrder[n], context,
                                                    Clock(database, recent), request').db,
                                            TRUE)
                      ELSE /\ n = Len(FixedOrder)
                           /\ middlewares'.option_cur_middleware = None
               /\ (/\ get_tag(Parsed(request')) = AF_ALIVE
                   /\ context.pack_in.set_blocs # {}
                   /\ context.notification_changes # <<>>)
                    => /\ get_state(response') = "Ok"
                       /\ response'.tag = IC_PACK_IN]_vars

\* AF_ALIVE met a PACK_IN bloc and a DATA_IN change both waiting: MPackOut
\* then MPackIn were tried, MPackIn answered and the change still waits
C7_Witness ==
    /\ op = "handle_request_raw_frame"
    /\ request = new_message(AF_ALIVE)
    /\ trace = <<"reset", "MPackOut", "MPackIn">>
    /\ response.tag = IC_PACK_IN
    /\ middlewares.option_cur_middleware = Some(1)
    /\ middlewares.context.notification_changes # <<>>

\* C8: handling an AF_INIT request calls reset_conversation on every
\* middleware and clears option_cur_middleware: after any AF_INIT
\* option_cur_middleware is None
C8_InitClearsCurMiddleware ==
    [][(IsHandleParsed /\ get_tag(Parsed(request')) = AF_INIT)
        => /\ Head(trace') = "reset"
           /\ middlewares'.context.option_vec_u8_tag = None
           /\ middlewares'.option_cur_middleware = None]_vars

\* what the code does: AF_INIT resets every middleware and leaves
\* option_cur_middleware as it was
C8_InitKeepsCurMiddleware ==
    [][(IsHandleParsed /\ get_tag(Parsed(request')) = AF_INIT)
        => /\ Head(trace') = "reset"
           /\ middlewares'.context.option_vec_u8_tag = None
           /\ middlewares'.option_cur_middleware = middlewares.option_cur_middleware]_vars

\* AF_INIT was handled while a middleware was in conversation, and it still is
C8_Witness ==
    /\ op = "handle_request_raw_frame"
    /\ request = new_message(AF_INIT)
    /\ middlewares.option_cur_middleware # None

\* no middleware has a reply to the request
NobodyReplies(mw, database, raw_frame) ==
    /\ NobodyInConversation(mw, database, raw_frame)
    /\ \A k \in 1..Len(FixedOrder) :
         ReplyOf(FixedOrder[k], SelectContext(mw, database, raw_frame),
                 ReplyOfCur(mw, database, raw_frame).db, raw_frame).reply = None

\* C9: when no middleware claims a request other than AF_INIT, the response
\* to AF_ALIVE is ACK and the response to any other tag is NACK, and nobody
\* is in conversation afterwards; AF_ALIVE with no PACK_IN bloc to send and an
\* empty DATA_IN queue is answered ACK, whoever was in conversation
C9_NobodyClaims ==
    [][(IsHandleParsed /\ get_tag(Parsed(request')) # AF_INIT)
        => /\ NobodyReplies(middlewares, db, request')
             => /\ encode(response') =
                     IF get_tag(Parsed(request')) = AF_ALIVE THEN <<ACK>> ELSE <<NACK>>
                /\ middlewares'.option_cur_middleware = None
           /\ (/\ get_tag(Parsed(request')) = AF_ALIVE
               /\ middlewares.context.pack_in.set_blocs = {}
               /\ middlewares.context.pack_in.private_datas = <<>>
               /\ middlewares.context.notification_changes = <<>>)
             => response' = Ack]_vars

\* AF_ALIVE is answered ACK after the waiting data has been sent
C9_Witness ==
    /\ op = "handle_request_raw_frame"
    /\ request = new_message(AF_ALIVE)
    /\ response = Ack
    /\ middlewares.context.nb_pack_in + middlewares.context.nb_data_in > 0
    /\ middlewares.option_cur_middleware = None

\* a request other than AF_ALIVE that nobody claims is answered NACK
C9_WitnessNack ==
    /\ op = "handle_request_raw_frame"
    /\ request = new_message(AF_TEST)
    /\ response = Nack
    /\ Len(trace) >= 7

\* the changes of `changes` MDataIn keeps: those of others, not DATA_PACK
RECURSIVE DataInChanges(_)
DataInChanges(changes) ==
    IF changes = <<>> THEN <<>>
    ELSE (IF Head(changes)[1] # afsec_service.id_user
             /\ Head(changes)[2].num_tag # TAG_DATA_PACK
          THEN <<<<Head(changes)[2], Head(changes)[3]>>>> ELSE <<>>)
         \o DataInChanges(Tail(changes))

\* the blocs of `changes` MPackIn keeps: DATA_PACK of zone 5 written by others
PackInChanges(changes) ==
    {changes[k][2].indice_2 :
        k \in {j \in 1..Len(changes) :
                /\ changes[j][1] # afsec_service.id_user
                /\ changes[j][2].zone = 5
                /\ changes[j][2].num_tag = TAG_DATA_PACK}}

\* C10: the changes given to Middlewares::notification_change reach every
\* middleware, whichever is in conversation: MDataIn queues each change of
\* another user on a tag other than DATA_PACK, MPackIn records the bloc of
\* each change of another user on DATA_PACK of zone 5, and
\* option_cur_middleware is left as it was
C10_ChangeReachesEveryMiddleware ==
    [][op' = "check_notification_changes"
        => /\ middlewares'.option_cur_middleware = middlewares.option_cur_middleware
           /\ middlewares'.context.notification_changes =
                middlewares.context.notification_changes \o DataInChanges(notified')
           /\ IF middlewares.context.pack_in.is_transaction
              THEN /\ middlewares'.context.pack_in.set_pending_blocs =
                        middlewares.context.pack_in.set_pending_blocs
                        \cup PackInChanges(notified')
                   /\ middlewares'.context.pack_in.set_blocs =
                        middlewares.context.pack_in.set_blocs
              ELSE middlewares'.context.pack_in.set_blocs =
                     middlewares.context.pack_in.set_blocs \cup PackInChanges(notified')]_vars

\* changes for MDataIn and for MPackIn were notified while a third middleware
\* was in conversation, and both kept theirs
C10_Witness ==
    /\ op = "check_notification_changes"
    /\ middlewares.option_cur_middleware \notin {None, Some(1), Some(3)}
    /\ DataInChanges(notified) # <<>>
    /\ PackInChanges(notified) # {}
    /\ middlewares.context.notification_changes # <<>>
    /\ middlewares.context.pack_in.set_blocs # {}

---------------------------------------------------------------------------
(* Properties of the ledger of changes *)

IsWrite == op' = "set_vec_u8_to_id_tag"

IsGetChange == op' = "get_change"

\* the change announced by the write just made
ChangeWritten == NotificationChange(ledger'.call.id_user, ledger'.call.vec_u8[1])

\* `after` is `database` with `change` appended and the purge that follows it:
\* k changes are gone from the head and every cursor moved back by k
IsAppended(database, after, change) ==
    \E k \in 0..Len(database.vec_changes) :
        /\ after.vec_changes =
             SubSeq(Append(database.vec_changes, change), k + 1,
                    Len(database.vec_changes) + 1)
        /\ Len(after.vec_users) = Len(database.vec_users)
        /\ \A i \in 1..Len(database.vec_users) :
              after.vec_users[i] =
                [database.vec_users[i] EXCEPT
                    !.next_notification_index = IF @ >= k THEN @ - k ELSE 0]

\* the ledger is what it was
IsNotAppended(database, after) ==
    /\ after.vec_changes = database.vec_changes
    /\ after.vec_users = database.vec_users

\* the change written repeats the last change of the ledger
RepeatsLastChange ==
    /\ db.vec_changes # <<>>
    /\ db.vec_changes[Len(db.vec_changes)] = ChangeWritten

\* C11: with a notification-enabled user registered, a change that repeats
\* the last change of the ledger (same id_user, same id_tag) less than 1 s
\* after it was appended is not appended, so that two such writes append one
\* change; it is appended when more than 1 s has passed; and a change that
\* differs from the last one in id_user or id_tag is always appended
C11_Debounce ==
    [][(IsWrite /\ is_some_users_use_notification(db))
        => /\ ~RepeatsLastChange => IsAppended(db, db', ChangeWritten)
           /\ (RepeatsLastChange /\ ledger'.call.elapsed # None)
                => IF ledger'.call.elapsed[1].secs < DURATION_CHANGE_FILTER_SECS
                   THEN IsNotAppended(db, db')
                   ELSE IsAppended(db, db', ChangeWritten)]_vars

\* what add_change does: the change that repeats the last one is dropped when
\* the time elapsed, converted to an f32 number of seconds, is below 1.0
C11_DebounceAsF32 ==
    [][(IsWrite /\ is_some_users_use_notification(db))
        => IF RepeatsLastChange /\ is_elapsed_in_filter(ledger'.call.elapsed)
           THEN IsNotAppended(db, db')
           ELSE IsAppended(db, db', ChangeWritten)]_vars

\* the same change was written twice, the second time 999 999 990 ns after the
\* first, and the ledger holds it twice
C11_Witness ==
    /\ op = "set_vec_u8_to_id_tag"
    /\ ledger.call.elapsed = Some(Duration(0, 999999990))
    /\ Len(db.vec_changes) = 2
    /\ db.vec_changes[1] = db.vec_changes[2]

\* the user who made the last call is registered and takes notifications
IsNotified(database, id_user) ==
    /\ id_user < Len(database.vec_users)
    /\ database.vec_users[id_user + 1].use_notification

\* next_notification_index of id_user
Cursor(database, id_user) == database.vec_users[id_user + 1].next_notification_index

\* the positions of vec_changes, from 1, at or after the cursor of id_user
\* whose change passes the two filters
Passing(database, id_user, include_my_changes, include_anonymous_changes) ==
    {j \in (Cursor(database, id_user) + 1)..Len(database.vec_changes) :
        /\ include_anonymous_changes \/ database.vec_changes[j].id_user # ID_ANONYMOUS_USER
        /\ include_my_changes \/ database.vec_changes[j].id_user # id_user}

\* the positions that pass for the call just made, in the ledger before it
PassingCall ==
    Passing(db, ledger'.call.id_user, ledger'.call.include_my_changes,
            ledger'.call.include_anonymous_changes)

\* the cursor of a user, counted from the first change ever appended
Position(id_user) == Purged + Cursor(db, id_user)

\* C12: get_change of a notification-enabled user returns the first change at
\* or after its cursor that passes both filters and leaves the cursor just
\* past it, or returns None and leaves the cursor at the end of the log when
\* none passes; nothing else changes in the ledger; and no step ever moves a
\* cursor back over a change, so that the changes skipped are not given later
C12_GetChange ==
    [][/\ (IsGetChange /\ IsNotified(db, ledger'.call.id_user))
          => /\ IF PassingCall # {}
                THEN \E j \in PassingCall :
                        /\ \A i \in PassingCall : j <= i
                        /\ ledger'.call.change = Some(db.vec_changes[j])
                        /\ Cursor(db', ledger'.call.id_user) = j
                ELSE /\ ledger'.call.change = None
                     /\ Cursor(db', ledger'.call.id_user) = Len(db.vec_changes)
             /\ db'.vec_changes = db.vec_changes
             /\ Len(db'.vec_users) = Len(db.vec_users)
             /\ \A i \in 1..Len(db.vec_users) :
                   i # ledger'.call.id_user + 1 => db'.vec_users[i] = db.vec_users[i]
       /\ \A id_user \in UserIds :
             IsNotified(db, id_user) => Position(id_user)' >= Position(id_user)]_vars

\* a user asked for the changes of the registered users only: the change of
\* the anonymous user that came first was skipped, the cursor is past both
C12_Witness ==
    /\ op = "get_change"
    /\ ~ledger.call.include_anonymous_changes
    /\ ledger.call.change # None
    /\ Len(db.vec_changes) = 2
    /\ db.vec_changes[1].id_user = ID_ANONYMOUS_USER
    /\ ledger.call.change = Some(db.vec_changes[2])
    /\ Cursor(db, ledger.call.id_user) = 2

\* the users other than the writer who are registered and take notifications
ReadersOf(database, writer) ==
    {id_user \in UserIds : id_user # writer /\ IsNotified(database, id_user)}

\* the write just made left its change in the log, not yet given to `reader`,
\* and no change `reader` was not given yet has left the log
IsPending(reader) ==
    /\ IsAppended(db, db', ChangeWritten)
    /\ Cursor(db', reader) < Len(db'.vec_changes)
    /\ Purged' <= Position(reader)

\* get_change(reader, false, true) gave the first change of another user at or
\* after the cursor: the changes before it, or all of them when None is
\* returned, are changes of `reader`
SkipsOwnOnly(reader) ==
    /\ \A j \in (Cursor(db, reader) + 1)..Cursor(db', reader) :
          \/ db.vec_changes[j].id_user = reader
          \/ /\ ledger'.call.change = Some(db.vec_changes[j])
             /\ j = Cursor(db', reader)
    /\ ledger'.call.change = None => Cursor(db', reader) = Len(db.vec_changes)

IsGetChangeOfOthers ==
    /\ IsGetChange
    /\ ~ledger'.call.include_my_changes
    /\ ledger'.call.include_anonymous_changes
    /\ IsNotified(db, ledger'.call.id_user)

\* C13 as stated: every write of a user u leaves one change that the
\* notification-enabled readers u' # u registered before it are given, in
\* the order of the writes, by get_change(u', false, true)
C13_EveryWriteIsGiven ==
    [][/\ IsWrite => \A reader \in ReadersOf(db, ledger'.call.id_user) : IsPending(reader)
       /\ IsGetChangeOfOthers => SkipsOwnOnly(ledger'.call.id_user)]_vars

\* C13, amended: every write of a user u leaves one change that the
\* notification-enabled readers u' # u registered before it are given, in
\* the order of the writes, by get_change(u', false, true), but for the write
\* that add_change takes for the same as the last change: same id_user, same
\* id_tag, within the filter of 1 s
C13_EveryChangeIsGiven ==
    [][/\ IsWrite => \A reader \in ReadersOf(db, ledger'.call.id_user) :
                         IF RepeatsLastChange /\ is_elapsed_in_filter(ledger'.call.elapsed)
                         THEN IsNotAppended(db, db')
                         ELSE IsPending(reader)
       /\ IsGetChangeOfOthers => SkipsOwnOnly(ledger'.call.id_user)]_vars

\* a reader wrote, then another user wrote; the reader asked for the changes
\* of the others and was given the second change, past its own
C13_Witness ==
    /\ op = "get_change"
    /\ ~ledger.call.include_my_changes
    /\ ledger.call.include_anonymous_changes
    /\ Len(db.vec_changes) = 2
    /\ db.vec_changes[1].id_user = ledger.call.id_user
    /\ db.vec_changes[2].id_user # ledger.call.id_user
    /\ ledger.call.change = Some(db.vec_changes[2])

\* vec_changes is the log of the changes appended, in the order they were,
\* less the first Purged of them
IsTailOfLog ==
    /\ Purged >= 0
    /\ db.vec_changes =
         SubSeq(ledger.kept.vec_changes, Purged + 1, Len(ledger.kept.vec_changes))

\* the place of the user of the last call in the log, after it
PositionAfter == Purged' + Cursor(db', ledger'.call.id_user)

\* C14: whatever the writes, the purges and the calls of get_change before,
\* a change given to a user lies in the log of the appended changes after
\* every change that user was given or skipped before, and no step moves the
\* place a user has reached in that log back: the changes come in the order
\* they were appended and none comes twice
C14_AppendOrder ==
    [][/\ IsTailOfLog /\ IsTailOfLog'
       /\ (IsGetChange /\ ledger'.call.change # None)
            => /\ PositionAfter > Position(ledger'.call.id_user)
               /\ ledger'.call.change = Some(ledger'.kept.vec_changes[PositionAfter])
       /\ \A id_user \in UserIds :
             IsNotified(db, id_user)
                => /\ Position(id_user)' >= Position(id_user)
                   /\ Position(id_user)' <= Len(ledger'.kept.vec_changes)]_vars

\* two users wrote, the log was purged of the first change, and a reader was
\* given the second one, the first of what is left
C14_Witness ==
    /\ op = "get_change"
    /\ Purged = 1
    /\ Len(db.vec_changes) = 1
    /\ ledger.call.change = Some(db.vec_changes[1])
    /\ ledger.kept.vec_changes[1].id_user # ledger.kept.vec_changes[2].id_user


\* the write just made is made under an id that no user was given
IsWriteOfUnregistered ==
    /\ IsWrite
    /\ ledger'.call.id_user >= Len(db.vec_users)

C16_CursorInLog ==
    \A i \in 1..Len(db.vec_users) :
        db.vec_users[i].next_notification_index <= Len(db.vec_changes)

\* a write purged the head of the log, and since then a reader was given the
\* change that was left: its cursor is at the end of the log, the cursor of
\* a user who takes no notifications was moved back to 0
C16_Witness ==
    /\ op = "get_change"
    /\ Purged > 0
    /\ Len(db.vec_changes) = 1
    /\ Len(db.vec_users) = 3
    /\ \E i, j \in 2..3 :
          /\ db.vec_users[i].use_notification
          /\ db.vec_users[i].next_notification_index = 1
          /\ ~db.vec_users[j].use_notification
          /\ db.vec_users[j].next_notification_index = 0
          /\ ledger.kept.vec_users[j].next_notification_index = 1


\* C17: the purges cannot be seen by the readers. The log is the log of a
\* ledger that never purges less its first Purged changes, every
\* notification-enabled user has passed the changes purged and has its
\* cursor moved back by their number, and get_change returns to every user
\* and with every filter what it returns on the ledger that never purges
C17_PurgeUnobservable ==
    /\ IsTailOfLog
    /\ \A id_user \in UserIds :
          IsNotified(db, id_user)
             => Cursor(ledger.kept, id_user) = Purged + Cursor(db, id_user)
    /\ \A id_user \in UserIds, include_my_changes \in BOOLEAN,
          include_anonymous_changes \in BOOLEAN :
          get_change(db, id_user, include_my_changes,
                     include_anonymous_changes).change
            = get_change(ledger.kept, id_user, include_my_changes,
                         include_anonymous_changes).change

\* two readers were given the first change, the write of the second change
\* purged the first, and one of the readers was given the second change
C17_Witness ==
    /\ op = "get_change"
    /\ ledger.call.change # None
    /\ Purged = 1
    /\ Len(db.vec_users) = 3
    /\ \A i \in 2..3 : db.vec_users[i].use_notification
    /\ ledger.call.change = Some(ledger.kept.vec_changes[2])


---------------------------------------------------------------------------
(* Properties of the accesses to the store *)

\* the changes appended to the ledger by the last step
Announced == SubSeq(db'.vec_changes, Len(db.vec_changes) + 1, Len(db'.vec_changes))

\* the registered tags whose words intersect the words written by the last
\* call of set_vec_u8_to_word_address
TagsWritten ==
    {tag \in db.hash_tag :
        /\ tag.word_address < ledger'.call.word_address + ((Len(ledger'.call.vec_u8) + 1) \div 2)
        /\ ledger'.call.word_address < tag.word_address + nb_words(tag.t_format)}

\* C18: set_vec_u8_to_word_address(id_user, wa, bytes), bytes not empty and
\* wa the address of a tag or not, calls user_write_tag(id_user, tag) once
\* for each registered tag whose words intersect the words written, and for
\* no other tag
C18_TagsOfTheAreaWritten ==
    [][op' = "set_vec_u8_to_word_address"
        => /\ db'.vec_changes = db.vec_changes \o Announced
           /\ Len(Announced) = Cardinality(TagsWritten)
           /\ {Announced[i] : i \in 1..Len(Announced)}
                = {NotificationChange(ledger'.call.id_user, tag.id_tag) :
                       tag \in TagsWritten}]_vars


\* the formats of the typed getters the model reads with
TypedFormats == {t_format_of(t_value) : t_value \in TypedValues}

\* C19: when the id_tag is not registered, the setter of every type leaves
\* the bytes of the store and the ledger of changes as they were, and the
\* getter of every type returns the zero value of the type (no byte for a
\* Vec<u8>), whatever the store holds
C19_UnregisteredTag ==
    [][(/\ op' = "update_database"
        /\ get_tag_from_id_tag(db, ledger'.call.vec_u8[1]) = None)
        => /\ db'.vec_u8 = db.vec_u8
           /\ db'.vec_changes = db.vec_changes
           /\ db'.vec_users = db.vec_users
           /\ \A t_format \in TypedFormats :
                 get_from_id_tag(db', t_format, ledger'.call.vec_u8[1])
                    = TValue(t_format.k, t_format.n, 0, <<>>)
           /\ get_vec_u8_from_id_tag(db', ledger'.call.vec_u8[1], 2) = <<>>]_vars

\* a value was given to the setter of a tag that is not registered after a
\* write of a registered tag: the store holds the bytes of the first write
\* and the ledger its change, nothing more
C19_Witness ==
    /\ op = "update_database"
    /\ get_tag_from_id_tag(db, ledger.call.vec_u8[1]) = None
    /\ ledger.call.vec_u8[2] = TI16(1)
    /\ ledger.nb_calls = 2
    /\ db.vec_u8 # <<>>
    /\ Len(db.vec_changes) = 1


---------------------------------------------------------------------------
(* Properties of the AF_DATA_OUT conversations *)

\* the data items of the AF_DATA_OUT frame just received
ItemsReceived == ledger'.call.vec_u8

\* the items after the D_DATA_ZONE the frame starts with, if it does
PairsReceived ==
    IF ItemsReceived # <<>> /\ ItemsReceived[1].tag = D_DATA_ZONE
    THEN Tail(ItemsReceived)
    ELSE ItemsReceived

\* the zone of the items of PairsReceived: the zone the frame starts with, or
\* the zone left by the frames before
ZoneReceived ==
    IF ItemsReceived # <<>> /\ ItemsReceived[1].tag = D_DATA_ZONE
    THEN Some(ItemsReceived[1].t_value.num)
    ELSE middlewares.context.option_zone

\* the frame is made of pairs D_DATA_TAG, D_DATA_VALUE of a known zone, and
\* no table index is set
IsPairsOfZone ==
    /\ middlewares.context.option_table_index = None
    /\ ZoneReceived # None
    /\ PairsReceived # <<>>
    /\ Len(PairsReceived) % 2 = 0
    /\ \A i \in 1..Len(PairsReceived) :
          PairsReceived[i].tag = IF i % 2 = 1 THEN D_DATA_TAG ELSE D_DATA_VALUE

\* the IdTag of the pair whose D_DATA_TAG is the item i of PairsReceived
IdTagReceived(i) ==
    IdTag(ZoneReceived[1],
          (PairsReceived[i].t_value.bytes[1] * U8Mod) + PairsReceived[i].t_value.bytes[2],
          PairsReceived[i].t_value.bytes[3],
          PairsReceived[i].t_value.bytes[4],
          PairsReceived[i].t_value.bytes[5])

\* the D_DATA_TAG items of PairsReceived whose IdTag is registered
TagsReceived ==
    {i \in 1..Len(PairsReceived) :
        i % 2 = 1 /\ get_tag_from_id_tag(db, IdTagReceived(i)) # None}

\* the bytes of the store that belong to a tag of TagsReceived
BytesReceived ==
    UNION {LET tag == get_tag_from_id_tag(db, IdTagReceived(i))[1]
           IN  (2 * tag.word_address)..((2 * (tag.word_address + nb_words(tag.t_format))) - 1) :
           i \in TagsReceived}

---------------------------------------------------------------------------
(* Properties of the AF_DATA_IN conversations *)

\* the data items of the entries of a reply, the zone of the entry before
\* being cur_zone: the zone when it changes, then the tag and the value
RECURSIVE ItemsOf(_, _)
ItemsOf(entries, cur_zone) ==
    IF entries = <<>> THEN <<>>
    ELSE LET id_tag == entries[1][1]
         IN  (IF id_tag.zone # cur_zone
              THEN <<DataItemNew(D_DATA_ZONE, TU8(id_tag.zone))>>
              ELSE <<>>)
             \o <<DataItemNew(D_DATA_TAG,
                              TVecU8(5, ToBeBytes(id_tag.num_tag, 2)
                                        \o <<id_tag.indice_0, id_tag.indice_1,
                                             id_tag.indice_2>>)),
                  DataItemNew(D_DATA_VALUE, entries[1][2])>>
             \o ItemsOf(Tail(entries), id_tag.zone)

\* the payload made of data items
RECURSIVE PayloadOf(_)
PayloadOf(data_items) ==
    IF data_items = <<>> THEN <<>>
    ELSE data_item_encode(data_items[1]) \o PayloadOf(Tail(data_items))

Queue == middlewares.context.notification_changes

\* C21: a reply to AF_ALIVE or AF_DATA_IN built from a non-empty queue is an
\* IC_DATA_IN message that carries the items of the first n >= 1 entries of
\* the queue, whole and in order (the zone where it changes, 0xFF being the
\* zone before the first), and these n entries, no other, leave the queue;
\* the entry left at the head is one whose items would not all fit; with an
\* empty queue MDataIn has no reply; a change notified goes to the end of
\* the queue. Every entry is thus emitted once, in queue order
C21_DataIn ==
    [][/\ op' = "handle_request_raw_frame"
          => IF Queue = <<>>
             THEN /\ Queue' = <<>>
                  /\ response' = IF request'.tag = AF_ALIVE THEN new_ack ELSE new_nack
             ELSE \E n \in 1..Len(Queue) :
                     /\ Queue' = SubSeq(Queue, n + 1, Len(Queue))
                     /\ response'.v = "Ok"
                     /\ response'.tag = IC_DATA_IN
                     /\ response'.values = PayloadOf(ItemsOf(SubSeq(Queue, 1, n), 255))
                     /\ response'.len = Len(response'.values)
                     /\ Queue' # <<>>
                          => Len(PayloadOf(ItemsOf(SubSeq(Queue, 1, n + 1), 255)))
                               > RAW_FRAME_MAX_LEN
       /\ op' = "notification_change"
          => Queue' = Append(Queue, ledger'.call.vec_u8)]_vars

\* three changes were queued, the first two with values of 110 bytes: the
\* reply carried the first two and the third stayed in the queue
C21_Witness ==
    /\ op = "handle_request_raw_frame"
    /\ response.v = "Ok"
    /\ response.tag = IC_DATA_IN
    /\ response.len > 200
    /\ ledger.nb_calls = 3
    /\ Len(Queue) = 1
    /\ Queue[1][2] = TI16(1)


---------------------------------------------------------------------------
(* Properties of the PACK_IN transactions *)

PackInState == middlewares.context.pack_in

\* the payload of the item of rank `num_bloc` of the transaction when it
\* carries `bloc`: the rank and the number of blocs, the word offset of the
\* bloc, and the 64 bytes the store held when the transaction started
PayloadOfBloc(num_bloc, bloc, kept) ==
    <<(16 * num_bloc) + Cardinality(kept.blocs), bloc * 32>>
    \o [i \in 1..PackBlocLen |-> ByteAt(kept.held, ((2 * (256 + (32 * bloc))) + i) - 1)]

\* the blocs of the items sent since the last start of a transaction
BlocsSent(kept) == {kept.sent[i][2] \div 32 : i \in 1..Len(kept.sent)}

\* the items sent since the last start of a transaction are one item for each
\* of distinct blocs notified before it, with the bytes held at its start;
\* during the transaction the blocs to send are the rest of them, afterwards
\* every bloc was sent
OneItemPerBloc(pack_in, kept) ==
    /\ \A i \in 1..Len(kept.sent) :
          /\ kept.sent[i][2] \div 32 \in kept.blocs
          /\ kept.sent[i] = PayloadOfBloc(i, kept.sent[i][2] \div 32, kept)
    /\ Cardinality(BlocsSent(kept)) = Len(kept.sent)
    /\ IF pack_in.is_transaction
       THEN /\ kept.sent # <<>>
            /\ pack_in.private_datas # <<>>
            /\ pack_in.set_blocs = kept.blocs
            /\ {pack_in.private_datas[j][1] : j \in 1..Len(pack_in.private_datas)}
                 = kept.blocs \ BlocsSent(kept)
       ELSE /\ BlocsSent(kept) = kept.blocs
            /\ pack_in.private_datas = <<>>
            /\ pack_in.set_pending_blocs = {}

C32_PackInNumbering ==
    [][(op' = "handle_request_raw_frame" /\ response'.v = "Ok"
        /\ response'.tag = IC_PACK_IN)
       => LET Numbered(items, before, blocs, held) ==
                  /\ items # <<>>
                  /\ before + Len(items) <= Cardinality(blocs)
                  /\ \A i \in 1..Len(items) :
                        /\ items[i][1] = (16 * (before + i)) + Cardinality(blocs)
                        /\ items[i][2] % 32 = 0
                        /\ items[i][2] \div 32 \in blocs
                        /\ Len(items[i]) = PackBlocLen + 2
                        /\ \A k \in 1..PackBlocLen :
                              items[i][k + 2] =
                                  ByteAt(held, ((2 * (256 + items[i][2])) + k) - 1)
                  /\ PackInState'.is_transaction
                       <=> before + Len(items) < Cardinality(blocs)
          IN  IF PackInState.is_transaction
              THEN Numbered(PayloadsOf(response'.values), Len(ledger.sent),
                            ledger.blocs, ledger.held)
              ELSE Numbered(PayloadsOf(response'.values), 0,
                            PackInState.set_blocs, db.vec_u8)]_vars

\* a transaction of four blocs took two replies: the second one carried the
\* item 4 of 4 alone, after the items 1, 2 and 3 of 4 of the first
C32_Witness ==
    /\ op = "handle_request_raw_frame"
    /\ response.tag = IC_PACK_IN
    /\ Len(PayloadsOf(response.values)) = 1
    /\ PayloadsOf(response.values)[1][1] = 68
    /\ Len(ledger.sent) = 4
    /\ \A i \in 1..3 : ledger.sent[i][1] = (16 * i) + 4
    /\ ~PackInState.is_transaction

---------------------------------------------------------------------------
(* The PACK_OUT transactions as a state machine *)

\* AF_PACK_OUT frames received at most
MaxPackOut == 2

\* packets 1/2 and 2/2 at the word offsets 0 and 1, of four bytes each so
\* that the packets at the two offsets overlap on one word; the packet 1/1 of
\* the test of the source; an item with another tag and a packet too short to
\* be one
PackOutItems ==
    {DataItemNew(D_PACK_PAYLOAD,
                 TVecU8(6, <<header, word_offset, header, 0, header, word_offset>>)) :
        header \in {18, 34}, word_offset \in {0, 1}}
    \cup {DataItemNew(D_PACK_PAYLOAD, TVecU8(6, <<17, 10, 1, 2, 3, 4>>)),
          DataItemNew(D_DATA_ZONE, TU8(0)),
          DataItemNew(D_PACK_PAYLOAD, TVecU8(1, <<34>>))}

\* the data items of the frames received: none, one or two
PackOutFrames ==
    {<<>>} \cup {<<first>> : first \in PackOutItems}
           \cup {<<first, second>> : first \in PackOutItems, second \in PackOutItems}

\* the AFSEC+ process receives an AF_PACK_OUT frame and answers it
PackOut ==
    \E data_items \in PackOutFrames :
        \E recent \in Clocks(db, afsec_service.id_user) :
            LET Answered(raw_frame, h) ==
                    /\ middlewares.context.nb_pack_out < MaxPackOut
                    /\ middlewares' = h.middlewares
                    /\ db' = Clock(h.db, TRUE)
                    /\ request' = raw_frame
                    /\ response' = h.response
                    /\ trace' = h.trace
                    /\ ledger' = [ledger EXCEPT !.nb_calls = @ + 1]
                    /\ op' = "handle_request_raw_frame"
                    /\ UNCHANGED <<notified, frame, stream, fresh, item, result, tasks>>
                Received(raw_frame) ==
                    Answered(raw_frame,
                             handle_request_raw_frame(middlewares, Clock(db, recent),
                                                      raw_frame, <<>>))
            IN  Received(MessageOf(new_message(AF_PACK_OUT), data_items))

NextPackOut == PackOut

SpecPackOut == Init /\ [][NextPackOut]_vars


---------------------------------------------------------------------------
(* Properties of the PACK_OUT transactions *)

PackOutState == middlewares.context.pack_out

\* the word address of IdTag(4, TAG_DATA_PACK, [0, 0, 0])
PackOutBase == get_tag_from_id_tag(db, IdTag(4, TAG_DATA_PACK, 0, 0, 0))[1].word_address

\* the packets of a frame as get_conversation sees them: the payloads of at
\* least two bytes of the D_PACK_PAYLOAD items decoded from it, in order
PacketsOf(raw_frame) ==
    LET data_items == get_data_items(data_frame_try_from(raw_frame).data_frame)
        IsPacket(data_item) == /\ data_item.tag = D_PACK_PAYLOAD
                               /\ Len(to_vec_u8(data_item.t_value)) >= 2
        packets == SelectSeq(data_items, IsPacket)
    IN  [i \in 1..Len(packets) |-> to_vec_u8(packets[i].t_value)]

\* num_packet == total_nb_packets
IsLastPacket(packet) == packet[1] \div 16 = packet[1] % 16

\* what is staged after the packets of a frame are received
StagedWith(pack_out, packets) ==
    (IF pack_out.is_transaction THEN pack_out.private_datas ELSE <<>>)
    \o [i \in 1..Len(packets) |-> <<packets[i][2], SubSeqFrom(packets[i], 3)>>]

C24_LastPacketEnds ==
    [][(/\ op' = "handle_request_raw_frame"
        /\ \E i \in 1..Len(PacketsOf(request')) : IsLastPacket(PacketsOf(request')[i]))
        => PackOutState' = ContextDefault.pack_out]_vars

\* C25: when a transaction ends, each staged packet (word_offset, data) is
\* written in the order of reception at the word PackOutBase + word_offset as
\* the AFSEC+ user: each byte of data is in the store at its place from
\* 2 * (PackOutBase + word_offset) unless a packet received later covers it,
\* and every change recorded is one of the AFSEC+ user on the PACK_OUT tag
C25_PacketsWritten ==
    [][op' = "handle_request_raw_frame"
        => LET First(k, staged) == 2 * (PackOutBase + staged[k][1])
               Written(staged) ==
                   /\ \A k \in 1..Len(staged) : \A j \in 1..Len(staged[k][2]) :
                         \/ \E m \in (k + 1)..Len(staged) :
                               /\ First(m, staged) <= (First(k, staged) + j) - 1
                               /\ (First(k, staged) + j) - 1
                                    < First(m, staged) + Len(staged[m][2])
                         \/ ByteAt(db'.vec_u8, (First(k, staged) + j) - 1) = staged[k][2][j]
                   /\ Len(db'.vec_changes) >= Len(db.vec_changes)
                   /\ \A i \in 1..Len(db'.vec_changes) :
                         \/ /\ i <= Len(db.vec_changes)
                            /\ db'.vec_changes[i] = db.vec_changes[i]
                         \/ db'.vec_changes[i] =
                              NotificationChange(afsec_service.id_user,
                                                 IdTag(4, TAG_DATA_PACK, 0, 0, 0))
               Received(packets) ==
                   (packets # <<>> /\ IsLastPacket(packets[Len(packets)]))
                       => Written(StagedWith(PackOutState, packets))
           IN  Received(PacketsOf(request'))]_vars

\* the packet 1/2 at the word offset 0 was staged by a frame, the packet 2/2
\* at the word offset 1 ended the transaction in the next one: the store holds
\* the first word of the former and the two words of the latter
C25_Witness ==
    /\ op = "handle_request_raw_frame"
    /\ ledger.nb_calls = 2
    /\ PacketsOf(request) = <<(<<34, 1, 34, 0, 34, 1>>)>>
    /\ get_vec_u8_from_word_address(db, PackOutBase, 6) = <<18, 0, 34, 0, 34, 1>>
    /\ db.vec_changes # <<>>


\* a frame carried the packet 2/2 and then the packet 1/2: the transaction is
\* still in progress, both packets are staged and the store is as it was
C24_Witness ==
    /\ op = "handle_request_raw_frame"
    /\ middlewares.context.nb_pack_out = 1
    /\ Len(PacketsOf(request)) = 2
    /\ PacketsOf(request)[1][1] = 34
    /\ PacketsOf(request)[2][1] = 18
    /\ PackOutState.is_transaction
    /\ Len(PackOutState.private_datas) = 2
    /\ db.vec_u8 = afsec_service.db.vec_u8
    /\ db.vec_changes = <<>>


---------------------------------------------------------------------------
(* RawFrame::remove_junk on the frames that push builds *)

\* octets received before remove_junk is called, at most
MaxJunk == 6

JunkOctets == {0, STX, ETX, ACK, NACK}

\* a frame was built from the octets received
InitJunk ==
    /\ \E n \in 0..MaxJunk : \E octets \in [1..n -> JunkOctets] :
          /\ frame = new(octets)
          /\ stream = octets
    /\ fresh = TRUE
    /\ op = "new"
    /\ item = NoItem
    /\ result = "none"
    /\ InitAfsec

\* remove_junk is called on the frame; ledger.call keeps the frame it was given
RemoveJunkOf ==
    /\ frame' = remove_junk(frame)
    /\ ledger' = [ledger EXCEPT !.call = frame]
    /\ op' = "remove_junk"
    /\ UNCHANGED <<middlewares, db, request, response, trace, notified, stream, fresh,
                   item, result, tasks>>

NextJunk == RemoveJunkOf

SpecJunk == InitJunk /\ [][NextJunk]_vars

\* C27: remove_junk turns AckAndJunk into Ack, NackAndJunk into Nack,
\* OkAndJunk(t, l, p, x, _) into Ok(t, l, p, x) and Junk into Empty, and leaves
\* any other frame as it is; the frame it gives holds no junk, and a second
\* remove_junk leaves it as it is
C27_RemoveJunk ==
    [][op' = "remove_junk"
        => /\ frame' =
                IF frame.v = "AckAndJunk" THEN Ack
                ELSE IF frame.v = "NackAndJunk" THEN Nack
                ELSE IF frame.v = "OkAndJunk"
                     THEN [frame EXCEPT !.v = "Ok", !.junk = <<>>]
                ELSE IF frame.v = "Junk" THEN Empty
                ELSE frame
           /\ frame'.v \notin {"Junk", "AckAndJunk", "NackAndJunk", "OkAndJunk"}
           /\ frame'.junk = <<>>
           /\ remove_junk(frame') = frame']_vars

\* remove_junk was given a complete message followed by junk and gave the
\* message
C27_Witness ==
    /\ op = "remove_junk"
    /\ ledger.call.v = "OkAndJunk"
    /\ ledger.call.junk # <<>>
    /\ frame.v = "Ok"
    /\ encode(frame) \o ledger.call.junk = stream


---------------------------------------------------------------------------
(* Messages received octet by octet, and messages built *)

\* the length octets of the messages received
ReceivedLens == {0, 250, 251, 255}

\* the octets of a message of tag 0 whose payload is `len` octets 0
ReceivedMessage(len) == <<STX, 0, len>> \o [i \in 1..len |-> 0] \o <<len, ETX>>

\* an octet of a message is received and pushed into the frame being built
Receive ==
    \E len \in ReceivedLens :
        /\ fresh
        /\ Len(stream) < Len(ReceivedMessage(len))
        /\ stream = SubSeq(ReceivedMessage(len), 1, Len(stream))
        /\ frame' = push(frame, ReceivedMessage(len)[Len(stream) + 1])
        /\ stream' = Append(stream, ReceivedMessage(len)[Len(stream) + 1])
        /\ op' = "push"
        /\ item' = NoItem
        /\ result' = "none"
        /\ UNCHANGED afsec_vars
        /\ UNCHANGED fresh

NextReceive ==
    \/ New
    \/ Receive
    \/ NewMessage
    \/ TryExtendDataItem

SpecReceive == InitFrame /\ [][NextReceive]_vars

\* C28: a message frame in the state Ok has a len of 250 at most, whether
\* new_message and try_extend_data_item built it or push received it
C28_OkLen == frame.v = "Ok" => frame.len <= RAW_FRAME_MAX_LEN

\* a message announcing 251 octets of payload was received to its ETX and the
\* frame is Ok
C28_Witness ==
    /\ op = "push"
    /\ fresh
    /\ stream = ReceivedMessage(251)
    /\ frame.v = "Ok"
    /\ frame.len = 251
    /\ Len(frame.values) = 251


---------------------------------------------------------------------------
(* AF_DATA_OUT conversations that other requests interrupt *)

\* the AFSEC+ process receives an AF_ALIVE frame: the middleware in
\* conversation has no reply to it, and every conversation is reset
Alive ==
    LET Answered(h) ==
            /\ middlewares' = h.middlewares
            /\ db' = h.db
            /\ request' = new_message(AF_ALIVE)
            /\ response' = h.response
            /\ trace' = h.trace
            /\ op' = "handle_request_raw_frame"
            /\ UNCHANGED <<notified, ledger, frame, stream, fresh, item, result, tasks>>
    IN  Answered(handle_request_raw_frame(middlewares, db, new_message(AF_ALIVE), <<>>))

NextDataOutReset ==
    \/ DataOut
    \/ Alive

SpecDataOutReset == Init /\ [][NextDataOutReset]_vars

\* the tags of the data items of a frame
ItemTagsOf(raw_frame) ==
    LET data_items == get_data_items(data_frame_try_from(raw_frame).data_frame)
    IN  {data_items[i].tag : i \in 1..Len(data_items)}

\* C29: an AF_DATA_OUT frame that comes after the conversations were reset and
\* carries a zone, a tag and a value and no table index stores no RecordData,
\* whatever the frames before the reset carried: its value goes to the
\* database
C29_ResetClearsTableIndex ==
    [][(/\ op' = "handle_request_raw_frame"
        /\ request'.tag = AF_DATA_OUT
        /\ "reset" \in {trace'[i] : i \in 1..Len(trace')}
        /\ {D_DATA_ZONE, D_DATA_TAG, D_DATA_VALUE} \subseteq ItemTagsOf(request')
        /\ D_DATA_TABLE_INDEX \notin ItemTagsOf(request'))
        => middlewares'.context.record_datas = <<>>]_vars

\* a frame carried a table index and nothing else, an AF_ALIVE reset the
\* conversations, and the next AF_DATA_OUT frame carried the zone 0, the
\* measure and a value: the value is in record_datas, with the table index of
\* the first frame, and the store has not changed
C29_Witness ==
    /\ op = "handle_request_raw_frame"
    /\ request.tag = AF_DATA_OUT
    /\ middlewares.context.nb_data_out = 2
    /\ "reset" \in {trace[i] : i \in 1..Len(trace)}
    /\ ItemTagsOf(request) = {D_DATA_ZONE, D_DATA_TAG, D_DATA_VALUE}
    /\ Len(middlewares.context.record_datas) = 1
    /\ middlewares.context.option_table_index = Some(1)
    /\ db.vec_u8 = afsec_service.db.vec_u8
    /\ db.vec_changes = <<>>


---------------------------------------------------------------------------
(* The PACK_OUT transactions with or without a PACK_OUT area *)

\* the database when its file declares no IdTag(4, TAG_DATA_PACK, [0, 0, 0])
NoPackOutArea(database) ==
    [database EXCEPT !.hash_tag =
        {tag \in @ : tag.id_tag # IdTag(4, TAG_DATA_PACK, 0, 0, 0)}]

\* the AFSEC+ process starts on a database that has the PACK_OUT area or not
InitPackOutAny ==
    /\ middlewares = MiddlewaresNew
    /\ db \in {afsec_service.db, NoPackOutArea(afsec_service.db)}
    /\ request = Empty
    /\ response = Empty
    /\ trace = <<>>
    /\ notified = <<>>
    /\ ledger = LedgerNew
    /\ tasks = TasksNew
    /\ frame = Empty
    /\ stream = <<>>
    /\ fresh = TRUE
    /\ op = "new"
    /\ item = NoItem
    /\ result = "none"

SpecPackOutAny == InitPackOutAny /\ [][NextPackOut]_vars

\* C33: every AF_PACK_OUT frame is answered ACK, whatever its items (a total
\* that changes, a packet out of sequence, a payload of less than 2 bytes, an
\* item that is not D_PACK_PAYLOAD, no item). When the database has no
\* IdTag(4, TAG_DATA_PACK, [0, 0, 0]), no frame changes a byte of the store
\* nor the change log, and the frame whose last packet has
\* num_packet = total_nb_packets leaves the transaction state reset all the
\* same: no transaction, no total, no last number, nothing staged
C33_PackOutAlwaysAck ==
    [][op' = "handle_request_raw_frame"
       => LET Received(packets) ==
                  /\ response' = new_ack
                  /\ get_tag_from_id_tag(db, IdTag(4, TAG_DATA_PACK, 0, 0, 0)) = None
                       => /\ db'.vec_u8 = db.vec_u8
                          /\ db'.vec_changes = db.vec_changes
                          /\ db'.hash_tag = db.hash_tag
                  /\ (packets # <<>> /\ IsLastPacket(packets[Len(packets)]))
                       => PackOutState' =
                             [is_transaction |-> FALSE, option_nb_total_packets |-> None,
                              option_last_num_packet |-> None, private_datas |-> <<>>]
                  /\ ~(packets # <<>> /\ IsLastPacket(packets[Len(packets)]))
                       => /\ PackOutState'.is_transaction
                          /\ PackOutState'.private_datas = StagedWith(PackOutState, packets)
          IN  Received(PacketsOf(request'))]_vars

\* on a database without the PACK_OUT area, a frame staged the packet 1/2 and
\* the following one brought a packet 2/2 after an item that is not a packet:
\* the answer is ACK, the store is empty and no transaction is in progress
C33_Witness ==
    /\ get_tag_from_id_tag(db, IdTag(4, TAG_DATA_PACK, 0, 0, 0)) = None
    /\ op = "handle_request_raw_frame"
    /\ middlewares.context.nb_pack_out = 2
    /\ Len(get_data_items(data_frame_try_from(request).data_frame)) = 2
    /\ get_data_items(data_frame_try_from(request).data_frame)[1].tag = D_DATA_ZONE
    /\ PacketsOf(request) = <<<<34, 1, 34, 0, 34, 1>>>>
    /\ response = new_ack
    /\ db.vec_u8 = <<>>
    /\ db.vec_changes = <<>>
    /\ ~PackOutState.is_transaction
    /\ PackOutState.private_datas = <<>>

---------------------------------------------------------------------------
(* The journal records as a state machine *)

\* AF_DATA_OUT frames carrying a journal record, at most
MaxRecords == 3

\* the tag END_OF_RECORD, as the tag of a D_DATA_TAG item
EndOfRecordTag == TVecU8(5, <<114, 16, 0, 0, 0>>)

RecordZones == {0, 1}
RecordIndexes == {0, 1, 2}

\* the zones and table indices of the RecordData of `record_datas`
IndexesOf(record_datas) ==
    {<<record_datas[i].id_tag.zone, record_datas[i].table_index>> :
        i \in 1..Len(record_datas)}

\* the AFSEC+ process receives an AF_DATA_OUT frame with a zone, a table
\* index, a tag and its value, followed or not by END_OF_RECORD and a value;
\* ledger.flushed keeps the zone and table index of every RecordData that
\* collect_record_datas was given
RecordOut ==
    \E zone \in RecordZones, table_index \in RecordIndexes, end \in BOOLEAN :
        LET data_items ==
                <<DataItemNew(D_DATA_ZONE, TU8(zone)),
                  DataItemNew(D_DATA_TABLE_INDEX, TU64(table_index)),
                  DataItemNew(D_DATA_TAG, NumberTag),
                  DataItemNew(D_DATA_VALUE, TI16(1))>>
                \o (IF end THEN <<DataItemNew(D_DATA_TAG, EndOfRecordTag),
                                  DataItemNew(D_DATA_VALUE, TI16(0))>>
                    ELSE <<>>)
            Answered(raw_frame, h) ==
                /\ middlewares.context.nb_data_out < MaxRecords
                /\ middlewares' = h.middlewares
                /\ db' = h.db
                /\ request' = raw_frame
                /\ response' = h.response
                /\ trace' = h.trace
                /\ ledger' =
                     IF h.middlewares.context.record_datas = <<>>
                     THEN [ledger EXCEPT !.flushed =
                              @ \cup IndexesOf(middlewares.context.record_datas)
                                \cup {<<zone, table_index>>}]
                     ELSE ledger
                /\ op' = "handle_request_raw_frame"
                /\ UNCHANGED <<notified, frame, stream, fresh, item, result, tasks>>
            Received(raw_frame) ==
                Answered(raw_frame, handle_request_raw_frame(middlewares, db, raw_frame, <<>>))
        IN  Received(MessageOf(new_message(AF_DATA_OUT), data_items))

\* the AFSEC+ process asks for the table indices of a zone: MDataOut has no
\* reply, the conversations are reset and MDataOutTableIndex answers
TableIndex ==
    \E zone \in RecordZones :
        LET Answered(raw_frame, h) ==
                /\ middlewares' = h.middlewares
                /\ db' = h.db
                /\ request' = raw_frame
                /\ response' = h.response
                /\ trace' = h.trace
                /\ ledger' = [ledger EXCEPT !.flushed =
                                 @ \cup IndexesOf(middlewares.context.record_datas)]
                /\ op' = "handle_request_raw_frame"
                /\ UNCHANGED <<notified, frame, stream, fresh, item, result, tasks>>
            Received(raw_frame) ==
                Answered(raw_frame, handle_request_raw_frame(middlewares, db, raw_frame, <<>>))
        IN  Received(MessageOf(new_message(AF_DATA_OUT_TABLE_INDEX),
                               <<DataItemNew(D_DATA_ZONE, TU8(zone))>>))

NextRecords ==
    \/ RecordOut
    \/ TableIndex

SpecRecords == Init /\ [][NextRecords]_vars

---------------------------------------------------------------------------
(* Properties of the journal records *)

\* the table indices flushed so far for a zone
Flushed(kept, zone) == {p[2] : p \in {q \in kept.flushed : q[1] = zone}}

MinOf(set) == IF set = {} THEN 0 ELSE CHOOSE n \in set : \A m \in set : n <= m
MaxOf(set) == IF set = {} THEN 0 ELSE CHOOSE n \in set : \A m \in set : m <= n

\* C30: whatever journal records were flushed for a zone, by END_OF_RECORD or
\* by reset_conversation, get_index_min and get_index_max of the zone are the
\* least and the greatest of the table indices flushed for it, and 0 when
\* there is none; record_datas is empty after a flush; and
\* AF_DATA_OUT_TABLE_INDEX with a zone is answered by IC_DATA_OUT_TABLE_INDEX
\* with the zone and these two values as U64, both under
\* D_DATA_FIRST_TABLE_INDEX
C30_Records ==
    [][op' = "handle_request_raw_frame"
        => /\ \A zone \in RecordZones :
                /\ get_index_min(middlewares'.context.records, zone)
                     = MinOf(Flushed(ledger', zone))
                /\ get_index_max(middlewares'.context.records, zone)
                     = MaxOf(Flushed(ledger', zone))
           /\ ledger'.flushed # ledger.flushed => middlewares'.context.record_datas = <<>>
           /\ request'.tag = AF_DATA_OUT_TABLE_INDEX
                => \E zone \in RecordZones :
                     /\ request'.values = data_item_encode(DataItemNew(D_DATA_ZONE, TU8(zone)))
                     /\ middlewares'.context.record_datas = <<>>
                     /\ response' =
                          MessageOf(new_message(IC_DATA_OUT_TABLE_INDEX),
                                    <<DataItemNew(D_DATA_ZONE, TU8(zone)),
                                      DataItemNew(D_DATA_FIRST_TABLE_INDEX,
                                                  TU64(MinOf(Flushed(ledger', zone)))),
                                      DataItemNew(D_DATA_FIRST_TABLE_INDEX,
                                                  TU64(MaxOf(Flushed(ledger', zone))))>>)]_vars

\* the records of table index 0 and then of table index 2 of a zone were
\* flushed, and the least index kept for the zone is 2
C30_Witness ==
    /\ op = "handle_request_raw_frame"
    /\ Flushed(ledger, 0) = {0, 2}
    /\ get_index_min(middlewares.context.records, 0) = 2
    /\ get_index_max(middlewares.context.records, 0) = 2
    /\ middlewares.context.record_datas = <<>>


---------------------------------------------------------------------------
(* The tasks and the mutex of the database as a state machine *)

\* register writes of the MODBUS/TCP service, at most
MaxRegisterWrites == 2

\* the task makes `move`: thread_db.lock() returns only when nobody owns the
\* mutex
Moved(task, move, database) ==
    /\ move.mutex = "lock" => tasks.owner = None
    /\ tasks' = [tasks EXCEPT
                    !.at[task] = move.to,
                    !.owner = IF move.mutex = "lock" THEN Some(task)
                              ELSE IF move.mutex = "unlock" THEN None
                              ELSE @,
                    !.id_user[task] =
                        IF tasks.at[task] = "register" /\ task # "modbus"
                        THEN Len(db.vec_users) ELSE @]
    /\ db' = database
    /\ op' = task
    /\ UNCHANGED <<middlewares, request, response, trace, notified, frame, stream, fresh,
                   item, result>>

\* a step of the serial task
SerialStep ==
    LET at == tasks.at["serial"]
        polled == get_change(db, tasks.id_user["serial"], FALSE, TRUE)
    IN  \E move \in database_afsec_process(at, polled.change) :
            /\ Moved("serial", move,
                     IF at = "register" THEN get_id_user(db, "AFSEC Comm", TRUE).db
                     ELSE IF at = "get_change" THEN polled.db
                     ELSE db)
            /\ UNCHANGED ledger

\* a step of the watcher task
WatcherStep ==
    LET at == tasks.at["watcher"]
        polled == get_change(db, tasks.id_user["watcher"], FALSE, TRUE)
    IN  \E move \in database_watcher_process(at, polled.change) :
            /\ Moved("watcher", move,
                     IF at = "register" THEN get_id_user(db, "Watcher", TRUE).db
                     ELSE IF at = "get_change" THEN polled.db
                     ELSE db)
            /\ UNCHANGED ledger

\* a step of the MODBUS/TCP service; under the guard it reads registers, or
\* writes the measure more than a second after the write before
ModbusStep ==
    LET at == tasks.at["modbus"]
    IN  \E move \in modbus_call(at) : \E write \in BOOLEAN :
            /\ write => at = "register" /\ ledger.nb_calls < MaxRegisterWrites
            /\ Moved("modbus", move,
                     IF write
                     THEN Clock(set_vec_u8_to_word_address(
                                    Clock(db, FALSE), ID_ANONYMOUS_USER, 0,
                                    <<0, ledger.nb_calls + 1>>), TRUE)
                     ELSE db)
            /\ ledger' = IF write THEN [ledger EXCEPT !.nb_calls = @ + 1] ELSE ledger

NextTasks ==
    \/ SerialStep
    \/ WatcherStep
    \/ ModbusStep

SpecTasks == Init /\ [][NextTasks]_vars

---------------------------------------------------------------------------
(* Properties of the tasks *)

\* C26: no task owns the mutex of the database while it awaits (the sleep of
\* the serial task and of the watcher, the transport of the MODBUS/TCP
\* service): the owner of the mutex is a task between its lock and the end of
\* the scope of its guard, so that a task waiting for the mutex never waits
\* for a suspended owner
C26_NoLockAcrossAwait ==
    \A task \in TaskNames :
        /\ IsSuspended(task, tasks.at[task]) => tasks.owner # Some(task)
        /\ tasks.owner = Some(task)
             => tasks.at[task] \in {"register", "middleware", "get_change"}
        /\ tasks.owner # Some(task)
             => tasks.at[task] \notin {"register", "middleware", "get_change"}

\* the watcher owns the mutex in its inner loop while the serial task sleeps
\* and the MODBUS/TCP service, called with a request, waits for the mutex
C26_Witness ==
    /\ tasks.owner = Some("watcher")
    /\ tasks.at["watcher"] = "get_change"
    /\ tasks.at["serial"] = "sleep"
    /\ tasks.at["modbus"] = "call"
    /\ db.vec_changes # <<>>


---------------------------------------------------------------------------
(* The observers of the changes as a state machine *)

\* changes given to Middlewares::notification_change at most
MaxObserved == 3

\* the users who made the changes: the AFSEC+ user, nobody, another one
ObservedUsers == {afsec_service.id_user, ID_ANONYMOUS_USER, afsec_service.id_user + 1}

\* the tags changed: DATA_PACK in the zone of the PACK_IN area (two blocs)
\* and in the zone of the PACK_OUT area, other tags in zone 5 and elsewhere
ObservedTags ==
    {IdTag(5, TAG_DATA_PACK, 0, 0, 0), IdTag(5, TAG_DATA_PACK, 0, 0, 1),
     IdTag(4, TAG_DATA_PACK, 0, 0, 0), IdTag(5, 258, 0, 0, 1), IdTag(0, 258, 0, 0, 0)}

\* check_notification_changes informs the middlewares of a change
Observe ==
    \E id_user \in ObservedUsers, id_tag \in ObservedTags :
        /\ ledger.nb_calls < MaxObserved
        /\ middlewares' = notification_change(middlewares, id_user, id_tag, TI16(1))
        /\ ledger' = [ledger EXCEPT
                         !.nb_calls = @ + 1,
                         !.call = Call(id_user, FALSE, FALSE, 0, <<id_tag, TI16(1)>>,
                                       None, None)]
        /\ op' = "notification_change"
        /\ UNCHANGED <<db, request, response, trace, notified, frame, stream, fresh,
                       item, result, tasks>>

\* the AFSEC+ process receives AF_ALIVE, AF_DATA_IN or AF_PACK_IN and answers
Ask ==
    \E tag \in {AF_ALIVE, AF_DATA_IN, AF_PACK_IN} :
        \E order \in Orders(middlewares.context.pack_in.set_blocs) :
            LET Answered(h) ==
                    /\ middlewares' = h.middlewares
                    /\ db' = h.db
                    /\ request' = new_message(tag)
                    /\ response' = h.response
                    /\ trace' = h.trace
                    /\ op' = "handle_request_raw_frame"
                    /\ UNCHANGED <<notified, ledger, frame, stream, fresh, item, result,
                                   tasks>>
            IN  Answered(handle_request_raw_frame(middlewares, db, new_message(tag), order))

NextObservers ==
    \/ Observe
    \/ Ask

SpecObservers == Init /\ [][NextObservers]_vars

---------------------------------------------------------------------------
(* Properties of the observers *)

\* the change is one MDataIn queues
IsForDataIn(id_user, id_tag) ==
    id_user # afsec_service.id_user /\ id_tag.num_tag # TAG_DATA_PACK

\* the change is one MPackIn records
IsForPackIn(id_user, id_tag) ==
    id_user # afsec_service.id_user /\ id_tag.zone = 5 /\ id_tag.num_tag = TAG_DATA_PACK

\* C31: a change notified is queued by MDataIn exactly when its id_user is not
\* the AFSEC+ user and its num_tag is not TAG_DATA_PACK, and otherwise leaves
\* the queue as it is; MPackIn records its bloc (in set_blocs, or in
\* set_pending_blocs during a transaction) exactly when the id_user is not the
\* AFSEC+ user, the zone is 5 and the num_tag is TAG_DATA_PACK, and otherwise
\* leaves pack_in as it is; no change is taken by both. No entry of the queue
\* has the tag TAG_DATA_PACK, and an IC_DATA_IN reply is made of the items of
\* entries of the queue, none of which has the tag TAG_DATA_PACK
C31_ObserversPartition ==
    [][/\ op' = "notification_change"
          => LET id_user == ledger'.call.id_user
                 id_tag == ledger'.call.vec_u8[1]
                 context == middlewares.context
                 pack_in == context.pack_in
             IN  /\ middlewares'.context.notification_changes =
                        IF IsForDataIn(id_user, id_tag)
                        THEN Append(Queue, ledger'.call.vec_u8) ELSE Queue
                 /\ middlewares'.context.pack_in =
                        IF ~IsForPackIn(id_user, id_tag) THEN pack_in
                        ELSE IF pack_in.is_transaction
                        THEN [pack_in EXCEPT !.set_pending_blocs = @ \cup {id_tag.indice_2}]
                        ELSE [pack_in EXCEPT !.set_blocs = @ \cup {id_tag.indice_2}]
                 /\ ~(IsForDataIn(id_user, id_tag) /\ IsForPackIn(id_user, id_tag))
                 /\ \A i \in 1..Len(Queue') : Queue'[i][1].num_tag # TAG_DATA_PACK
       /\ (op' = "handle_request_raw_frame" /\ response'.v = "Ok"
           /\ response'.tag = IC_DATA_IN)
          => \E n \in 1..Len(Queue) :
                /\ response'.values = PayloadOf(ItemsOf(SubSeq(Queue, 1, n), 255))
                /\ \A i \in 1..n : Queue[i][1].num_tag # TAG_DATA_PACK]_vars

\* changes of another user on a DATA_PACK tag of zone 5, on a DATA_PACK tag of
\* zone 4 and on another tag were notified: one bloc is recorded, one entry was
\* queued and the IC_DATA_IN reply carried it
C31_Witness ==
    /\ ledger.nb_calls = MaxObserved
    /\ ledger.call.vec_u8[1] = IdTag(4, TAG_DATA_PACK, 0, 0, 0)
    /\ ledger.call.id_user = ID_ANONYMOUS_USER
    /\ middlewares.context.pack_in.set_blocs = {1}
    /\ Queue = <<>>
    /\ response.v = "Ok"
    /\ response.tag = IC_DATA_IN
    /\ middlewares.context.nb_data_in = 1


---------------------------------------------------------------------------
(* The names of the users as a state machine *)

\* users registered at most, besides the anonymous user
MaxNamed == 3

\* the names they give
UserNames == {"user1", "user2", "Watcher"}

\* a thread registers under a name
Register ==
    \E name \in UserNames, use_notification \in BOOLEAN :
        /\ Len(db.vec_users) <= MaxNamed
        /\ db' = get_id_user(db, name, use_notification).db
        /\ ledger' = [ledger EXCEPT
                         !.call = Call(Len(db.vec_users), use_notification, FALSE, 0,
                                       <<>>, None, None)]
        /\ op' = "get_id_user"
        /\ result' = "none"
        /\ UNCHANGED <<middlewares, request, response, trace, notified, frame, stream,
                       fresh, item, tasks>>

\* a thread asks for the name of an id_user, registered or not
GetIdUserName ==
    \E id_user \in 0..(MaxNamed + 2) :
        /\ result' = get_id_user_name(db, id_user)
        /\ ledger' = [ledger EXCEPT
                         !.call = Call(id_user, FALSE, FALSE, 0, <<>>, None, None)]
        /\ op' = "get_id_user_name"
        /\ UNCHANGED <<middlewares, db, request, response, trace, notified, frame, stream,
                       fresh, item, tasks>>

NextNames ==
    \/ Register
    \/ GetIdUserName

SpecNames == InitUsers /\ [][NextNames]_vars

---------------------------------------------------------------------------
(* Properties of the names of the users *)

\* C34: get_id_user_name(id_user) returns the name the user registered with
\* for every registered id (the anonymous user included), and the name of the
\* anonymous user for every id that is not registered, the first id not yet
\* given included; it never panics
C34_UserName ==
    op = "get_id_user_name"
      => result = IF ledger.call.id_user < Len(db.vec_users)
                  THEN db.vec_users[ledger.call.id_user + 1].name
                  ELSE ANONYMOUS_USER_NAME

\* the name of the first id not yet given was asked for, after two users
\* registered: the index is out of bounds
C34_Witness ==
    /\ op = "get_id_user_name"
    /\ Len(db.vec_users) = 3
    /\ ledger.call.id_user = 3
    /\ result = "panic"


---------------------------------------------------------------------------
(* The answers of the AFSEC+ process as a state machine *)

\* conversations counted by the middlewares at most
MaxAnswered == 2

\* the requests: those of Requests, a bare NACK, an ACK followed by junk, a
\* message of a tag nobody knows, with or without items, and AF_PACK_OUT with
\* a packet 1/1
AnsweredRequests ==
    Requests
    \cup {new_nack, new(<<ACK, 0>>), new_message(0),
          MessageOf(new_message(1), <<DataItemNew(D_DATA_ZONE, TU8(0))>>),
          MessageOf(new_message(AF_PACK_OUT),
                    <<DataItemNew(D_PACK_PAYLOAD, TVecU8(6, <<17, 10, 1, 2, 3, 4>>))>>)}

\* the AFSEC+ process receives a frame and answers it
Answer ==
    \E request_raw_frame \in AnsweredRequests :
        \E order \in Orders(middlewares.context.pack_in.set_blocs),
           recent \in Clocks(db, afsec_service.id_user) :
            LET Answered(h) ==
                    /\ Counted(h.middlewares.context) <= MaxAnswered
                    /\ middlewares' = h.middlewares
                    /\ db' = Clock(h.db, TRUE)
                    /\ request' = request_raw_frame
                    /\ response' = h.response
                    /\ trace' = h.trace
                    /\ op' = "handle_request_raw_frame"
                    /\ UNCHANGED <<notified, ledger, frame, stream, fresh, item, result,
                                   tasks>>
            IN  Answered(handle_request_raw_frame(middlewares, Clock(db, recent),
                                                  request_raw_frame, order))

\* the AFSEC+ process starts; the middlewares were informed of nothing, or of
\* the changes another user made to a measure and to a bloc of the PACK_IN
\* area
InitAnswers ==
    /\ middlewares \in
          {MiddlewaresNew,
           notification_change(
               notification_change(MiddlewaresNew, ID_ANONYMOUS_USER,
                                   IdTag(0, 258, 0, 0, 0), TI16(1)),
               ID_ANONYMOUS_USER, IdTag(5, TAG_DATA_PACK, 0, 0, 0),
               TVecU8(PackBlocLen, Fill(PackBlocLen)))}
    /\ db = afsec_service.db
    /\ request = Empty
    /\ response = Empty
    /\ trace = <<>>
    /\ notified = <<>>
    /\ ledger = LedgerNew
    /\ tasks = TasksNew
    /\ frame = Empty
    /\ stream = <<>>
    /\ fresh = TRUE
    /\ op = "new"
    /\ item = NoItem
    /\ result = "none"

NextAnswers == Answer

SpecAnswers == InitAnswers /\ [][NextAnswers]_vars

---------------------------------------------------------------------------
(* Properties of the answers *)

\* the frame is ACK, NACK or a whole message
IsWholeFrame(f) ==
    /\ get_state(f) = "Ok"
    /\ f.v = "Ok" => /\ f.len = Len(f.values)
                     /\ f.len <= RAW_FRAME_MAX_LEN
                     /\ f.xor = calcul_xor(f.tag, f.len, f.values)

\* C35: a request that converts to a DataFrame (a bare ACK, a bare NACK, a
\* message whose items decode, whatever its tag) is answered by one frame in
\* the state Ok: ACK, NACK or a whole message; a request that does not
\* convert is answered by the Empty frame, and no other request is; no answer
\* is a frame being built or junk
C35_AnswerIsOk ==
    [][op' = "handle_request_raw_frame"
       => /\ IF data_frame_try_from(request').err = "none"
             THEN IsWholeFrame(response')
             ELSE response' = Empty
          /\ get_state(response') \in {"Ok", "Empty"}]_vars

\* a bare NACK was answered NACK after an IC_DATA_IN message and an
\* IC_PACK_IN message were given in answer to other requests
C35_Witness ==
    /\ op = "handle_request_raw_frame"
    /\ request = new_nack
    /\ response = new_nack
    /\ middlewares.context.nb_data_in = 1
    /\ middlewares.context.nb_pack_in = 1


---------------------------------------------------------------------------
(* The PACK_IN sub-state under any request *)

\* AF_INIT frames at most
MaxInit == 1

\* the AFSEC+ process receives a frame of these tags and answers it
\* (the order in which the HashSet gives its blocs matters only to the
\* request that starts a transaction)
AskAny ==
    \E tag \in {AF_ALIVE, AF_PACK_IN, AF_DATA_IN, AF_INIT, AF_MENU} :
        \E order \in
              IF tag \in {AF_ALIVE, AF_PACK_IN} /\ ~middlewares.context.pack_in.is_transaction
              THEN Orders(middlewares.context.pack_in.set_blocs)
              ELSE {CHOOSE ascending \in Orders(middlewares.context.pack_in.set_blocs) :
                       \A i, j \in DOMAIN ascending :
                           i < j => ascending[i] < ascending[j]} :
            LET Answered(h) ==
                    /\ h.middlewares.context.nb_init <= MaxInit
                    /\ middlewares' = h.middlewares
                    /\ db' = h.db
                    /\ request' = new_message(tag)
                    /\ response' = h.response
                    /\ trace' = h.trace
                    /\ op' = "handle_request_raw_frame"
                    /\ UNCHANGED <<notified, ledger, frame, stream, fresh, item, result,
                                   tasks>>
            IN  Answered(handle_request_raw_frame(middlewares, db, new_message(tag), order))

NextPackInAny ==
    \/ WriteBloc
    \/ CheckChanges
    \/ AskAny

SpecPackInAny == InitPackIn /\ [][NextPackInAny]_vars

\* the PACK_IN sub-state between two requests
PackInBetweenRequests(pack_in) ==
    /\ pack_in.is_transaction
         => /\ pack_in.private_datas # <<>>
            /\ Len(pack_in.private_datas) <= Cardinality(pack_in.set_blocs)
    /\ ~pack_in.is_transaction
         => /\ pack_in.private_datas = <<>>
            /\ pack_in.set_pending_blocs = {}

\* C36: between two requests, a PACK_IN transaction in progress has blocs
\* left to send, no more than set_blocs has; without a transaction
\* private_datas and set_pending_blocs are empty; from a state with a
\* transaction in progress to the next one with it still in progress,
\* set_blocs is the same, whatever was requested or notified; every
\* IC_PACK_IN reply carries at least one D_PACK_PAYLOAD item
C36_PackInState ==
    [][/\ PackInBetweenRequests(PackInState)
       /\ PackInBetweenRequests(PackInState')
       /\ (PackInState.is_transaction /\ PackInState'.is_transaction)
            => PackInState'.set_blocs = PackInState.set_blocs
       /\ (op' = "handle_request_raw_frame" /\ response'.v = "Ok"
           /\ response'.tag = IC_PACK_IN)
            => /\ PayloadsOf(response'.values) # <<>>
               /\ response'.values[1] = D_PACK_PAYLOAD]_vars

\* a transaction of four blocs is in progress with one bloc left to send; a
\* bloc was written and notified in the meantime and AF_INIT was answered
C36_Witness ==
    /\ PackInState.is_transaction
    /\ Len(PackInState.private_datas) = 1
    /\ PackInState.set_blocs = {0, 1, 2, 3}
    /\ PackInState.set_pending_blocs = {3}
    /\ middlewares.context.nb_init = 1
    /\ op = "handle_request_raw_frame"
    /\ request = new_message(AF_INIT)


---------------------------------------------------------------------------
(* The PACK_OUT transactions among other conversations *)

NextPackOutAmong ==
    \/ PackOut
    \/ AskAny

SpecPackOutAmong == Init /\ [][NextPackOutAmong]_vars

\* C37: a frame that is not AF_PACK_OUT, AF_INIT and the resets of
\* conversation it triggers included, leaves context.pack_out as it is: a
\* transaction in progress stays in progress with its staged packets; and an
\* AF_PACK_OUT frame that brings a packet with num_packet = total_nb_packets
\* commits the packets staged before together with its own and ends the
\* transaction
C37_PackOutSurvives ==
    [][op' = "handle_request_raw_frame"
       => LET Received(packets) ==
                  /\ request'.tag # AF_PACK_OUT => PackOutState' = PackOutState
                  /\ (request'.tag = AF_PACK_OUT
                      /\ \E i \in 1..Len(packets) : IsLastPacket(packets[i]))
                       => /\ ~PackOutState'.is_transaction
                          /\ db'.vec_u8 =
                               WritePackets(db, PackOutBase,
                                            StagedWith(PackOutState, packets)).vec_u8
          IN  Received(IF request'.tag = AF_PACK_OUT THEN PacketsOf(request') ELSE <<>>)]_vars

\* the packet 1/2 was staged, AF_INIT reset the conversations, and the frame
\* that followed brought the packet 2/2 and then a packet 1/2: the three
\* packets are staged, the transaction is in progress and the store is empty
C37_Witness ==
    /\ op = "handle_request_raw_frame"
    /\ request.tag = AF_PACK_OUT
    /\ middlewares.context.nb_init = 1
    /\ middlewares.context.nb_pack_out = 2
    /\ Len(PacketsOf(request)) = 2
    /\ IsLastPacket(PacketsOf(request)[1])
    /\ ~IsLastPacket(PacketsOf(request)[2])
    /\ PackOutState.is_transaction
    /\ Len(PackOutState.private_datas) = 3
    /\ db.vec_u8 = <<>>


---------------------------------------------------------------------------
(* The writes of the AFSEC+ user among those of the others *)

\* writes by another user at most
MaxOtherWrites == 1

\* frames of the AFSEC+ that write the database at most
MaxOwnWrites == 1

\* what the other user writes: the measure and a bloc of the PACK_IN area
OtherWrites ==
    {<<IdTag(0, 258, 0, 0, 0), <<0, 1>>>>, <<IdTag(5, TAG_DATA_PACK, 0, 0, 0), <<1, 1>>>>}

\* the value the AFSEC+ writes to the measure
OwnValue == TI16(2)

\* the frames of the AFSEC+ that write the database: the measure by
\* AF_DATA_OUT, the application number by AF_INIT, the PACK_OUT area by the
\* packet 1/1 of AF_PACK_OUT
OwnFrames ==
    {MessageOf(new_message(AF_DATA_OUT),
               <<DataItemNew(D_DATA_ZONE, TU8(0)), DataItemNew(D_DATA_TAG, MeasureTag),
                 DataItemNew(D_DATA_VALUE, OwnValue)>>),
     MessageOf(new_message(AF_INIT), <<DataItemNew(D_APPLI_NUMBER, TI16(3))>>),
     MessageOf(new_message(AF_PACK_OUT),
               <<DataItemNew(D_PACK_PAYLOAD, TVecU8(6, <<17, 10, 1, 2, 3, 4>>))>>)}

\* another user writes, less or more than a second after the last change
OtherWrite ==
    \E write \in OtherWrites, recent \in Clocks(db, ID_ANONYMOUS_USER) :
        /\ ledger.nb_calls < MaxOtherWrites
        /\ db' = Clock(set_vec_u8_to_id_tag(Clock(db, recent), ID_ANONYMOUS_USER,
                                            write[1], write[2]), TRUE)
        /\ ledger' = [ledger EXCEPT !.nb_calls = @ + 1]
        /\ op' = "set_vec_u8_to_id_tag"
        /\ UNCHANGED <<middlewares, request, response, trace, notified, frame, stream,
                       fresh, item, result, tasks>>

\* the AFSEC+ process receives a frame that writes the database
OwnWrite ==
    \E request_raw_frame \in OwnFrames, recent \in Clocks(db, afsec_service.id_user) :
        LET Answered(h) ==
                /\ h.middlewares.context.nb_init + h.middlewares.context.nb_data_out
                   + h.middlewares.context.nb_pack_out <= MaxOwnWrites
                /\ middlewares' = h.middlewares
                /\ db' = Clock(h.db, TRUE)
                /\ request' = request_raw_frame
                /\ response' = h.response
                /\ trace' = h.trace
                /\ op' = "handle_request_raw_frame"
                /\ UNCHANGED <<notified, ledger, frame, stream, fresh, item, result, tasks>>
        IN  Answered(handle_request_raw_frame(middlewares, Clock(db, recent),
                                              request_raw_frame, <<>>))

NextOwnWrites ==
    \/ OtherWrite
    \/ OwnWrite
    \/ CheckChanges
    \/ Ask

SpecOwnWrites == Init /\ [][NextOwnWrites]_vars

---------------------------------------------------------------------------
(* Properties of the writes of the AFSEC+ user *)

\* the blocs MPackIn has to send, now or in the following transaction
BlocsRecorded(pack_in) == pack_in.set_blocs \cup pack_in.set_pending_blocs

\* the changes of the log the AFSEC+ user has not been given yet that were
\* made by others
RECURSIVE ChangesOfOthers(_, _)
ChangesOfOthers(database, from) ==
    IF from > Len(database.vec_changes) THEN <<>>
    ELSE (IF database.vec_changes[from].id_user # afsec_service.id_user
          THEN <<database.vec_changes[from]>> ELSE <<>>)
         \o ChangesOfOthers(database, from + 1)

\* a write of the AFSEC+ user adds nothing to the queue of MDataIn nor to the
\* blocs of MPackIn: a frame handled, whatever it writes, only takes entries
\* from the head of the queue and blocs from the sets, and a drain adds one
\* entry for each change another user left in the log on a tag other than
\* DATA_PACK, one bloc for each change another user left on a DATA_PACK tag
\* of zone 5, and nothing for the changes of the AFSEC+ user
OwnWritesAddNothing ==
    /\ op' = "handle_request_raw_frame"
         => /\ \E n \in 0..Len(Queue) : Queue' = SubSeq(Queue, n + 1, Len(Queue))
            /\ BlocsRecorded(PackInState') \subseteq BlocsRecorded(PackInState)
    /\ op' = "set_vec_u8_to_id_tag" => middlewares' = middlewares
    /\ op' = "check_notification_changes"
         => LET Drained(others) ==
                    /\ Len(notified') = Len(others)
                    /\ \A i \in 1..Len(others) :
                          /\ notified'[i][1] = others[i].id_user
                          /\ notified'[i][2] = others[i].id_tag
                    /\ Queue' = Queue \o DataInChanges(notified')
                    /\ BlocsRecorded(PackInState')
                         = BlocsRecorded(PackInState) \cup PackInChanges(notified')
            IN  Drained(ChangesOfOthers(db, Cursor(db, afsec_service.id_user) + 1))

\* no IC_DATA_IN reply carries the value the AFSEC+ wrote
NoOwnValueInReply ==
    (op' = "handle_request_raw_frame" /\ response'.v = "Ok" /\ response'.tag = IC_DATA_IN)
      => \A i \in 1..(Len(Queue) - Len(Queue')) : Queue[i][2] # OwnValue

\* C38 as stated: a write of the AFSEC+ user adds nothing to the queue nor to
\* the blocs, whatever the interleaving of frames, writes of others and
\* drains, and the AFSEC+ is never sent back its own data
C38_NeverEchoed == [][OwnWritesAddNothing /\ NoOwnValueInReply]_vars

\* C38: a write of the AFSEC+ user (by MInit, MDataOut or the commit of
\* MPackOut) adds no entry to context.notification_changes and no bloc to
\* pack_in.set_blocs or set_pending_blocs, whatever the interleaving of
\* frames, writes of others and drains: every entry and every bloc a drain
\* adds answers a change another user left in the log
C38_OwnWritesNotNotified == [][OwnWritesAddNothing]_vars

\* the AFSEC+ wrote the measure and nobody else wrote; the log held the
\* change and the drain gave nothing to the middlewares
C38_Witness ==
    /\ op = "check_notification_changes"
    /\ middlewares.context.nb_data_out = 1
    /\ ledger.nb_calls = 0
    /\ notified = <<>>
    /\ Queue = <<>>
    /\ BlocsRecorded(PackInState) = {}
    /\ db.vec_u8 # <<>>


---------------------------------------------------------------------------
(* The last write of another user and the replies that follow *)

\* writes by the other user at most
MaxLateWrites == 3

\* the tags the other user writes: the measure and another word
LateTags == {IdTag(0, 258, 0, 0, 0), IdTag(0, 16, 0, 0, 0)}

\* the value of the n-th write, which tells the writes apart
LateValue(n) == <<0, n>>

\* another user writes a tag, less or more than a second after the last
\* change recorded
LateWrite ==
    \E id_tag \in LateTags, recent \in Clocks(db, ID_ANONYMOUS_USER) :
        /\ ledger.nb_calls < MaxLateWrites
        /\ db' = Clock(set_vec_u8_to_id_tag(Clock(db, recent), ID_ANONYMOUS_USER,
                                            id_tag, LateValue(ledger.nb_calls + 1)), TRUE)
        /\ ledger' = [ledger EXCEPT !.nb_calls = @ + 1]
        /\ op' = "set_vec_u8_to_id_tag"
        /\ UNCHANGED <<middlewares, request, response, trace, notified, frame, stream,
                       fresh, item, result, tasks>>

\* the AFSEC+ process polls the ledger and informs the middlewares, the log
\* empty or not
CheckLate ==
    \E c \in {check_notification_changes(middlewares, db)} :
        /\ middlewares' = c.middlewares
        /\ db' = c.db
        /\ notified' = c.vec_changes
        /\ op' = "check_notification_changes"
        /\ UNCHANGED <<request, response, trace, ledger, frame, stream, fresh, item,
                       result, tasks>>

\* the AFSEC+ process receives AF_ALIVE and answers it
AskAlive ==
    \E h \in {handle_request_raw_frame(middlewares, db, new_message(AF_ALIVE), <<>>)} :
        /\ middlewares' = h.middlewares
        /\ db' = h.db
        /\ request' = new_message(AF_ALIVE)
        /\ response' = h.response
        /\ trace' = h.trace
        /\ op' = "handle_request_raw_frame"
        /\ UNCHANGED <<notified, ledger, frame, stream, fresh, item, result, tasks>>

NextLate ==
    \/ LateWrite
    \/ CheckLate
    \/ AskAlive

\* a step that is a drain, a step that is an answer: `op` tells which call was
\* the last one even when it found nothing to do
Drains == op' = "check_notification_changes"
Answers == op' = "handle_request_raw_frame"

\* the loop of database_afsec_process goes on: it calls
\* check_notification_changes again and again, and the AFSEC+ keeps sending
\* AF_ALIVE, so that neither call is the last one for ever
SpecLate ==
    /\ Init
    /\ [][NextLate]_vars
    /\ WF_op(Drains)
    /\ WF_op(Answers)

---------------------------------------------------------------------------
(* Properties of the last write *)

\* the measure holds the value of the n-th write
MeasureIs(n) ==
    get_t_value_from_tag(db, get_tag_from_id_tag(db, IdTag(0, 258, 0, 0, 0))[1]) = TI16(n)

\* the response is an IC_DATA_IN message that carries the measure with the
\* value of the n-th write: the item of its tag followed by the item of its
\* value
CarriesMeasure(n) ==
    /\ response.v = "Ok"
    /\ response.tag = IC_DATA_IN
    /\ LET items == PayloadOf(<<DataItemNew(D_DATA_TAG, MeasureTag),
                                DataItemNew(D_DATA_VALUE, TI16(n))>>)
       IN  \E i \in 0..(Len(response.values) - Len(items)) :
              SubSeq(response.values, i + 1, i + Len(items)) = items

\* C39: when the n-th write is the last one to the measure, made by another
\* user, and drains and AF_ALIVE requests keep occurring, an IC_DATA_IN reply
\* eventually carries the measure with the value of that write, whatever the
\* timing of the writes and the drains before
C39_DataInConverges ==
    \A n \in 1..MaxLateWrites : <>[]MeasureIs(n) => <>CarriesMeasure(n)

\* the measure was written twice within a second, with a drain and a reply in
\* between: the reply carried the first value, the log holds one change, the
\* AFSEC+ user has been given it, the queue is empty and the measure holds the
\* second value
C39_Witness ==
    /\ ledger.nb_calls = 2
    /\ MeasureIs(2)
    /\ Len(db.vec_changes) = 1
    /\ Cursor(db, afsec_service.id_user) = 1
    /\ Queue = <<>>
    /\ middlewares.context.nb_data_in = 1
    /\ op = "handle_request_raw_frame"
    /\ response = new_ack


---------------------------------------------------------------------------
(* The drain of the changes among the writes of the MODBUS/TCP service *)

\* requests that write registers, at most
MaxDrainWrites == 2

MODBUS_TOP_WORD_ADDRESS == 32768

\* register_write under the guard of Service::call: each register below
\* MODBUS_TOP_WORD_ADDRESS is stored big endian at its word address, and the
\* clock has not moved by a second when the next register is written
RECURSIVE register_write(_, _, _, _)
register_write(database, id_user, addr, values) ==
    IF values = <<>> THEN database
    ELSE register_write(
             IF addr < MODBUS_TOP_WORD_ADDRESS
             THEN Clock(set_vec_u8_to_word_address(database, id_user, addr,
                                                   ToBeBytes(Head(values), 2)), TRUE)
             ELSE database,
             id_user, addr + 1, Tail(values))

\* a variant of the loop of check_notification_changes whose guard is a
\* temporary of the call of get_change, the value of the tag being read once
\* the mutex is free again
check_notification_changes_loop_drops_guard(at, change) ==
    CASE at = "sleep" -> {Move("check", "none")}
      [] at = "check" -> {Move("get_change", "lock")}
      [] at = "get_change" ->
            IF change # None THEN {Move("get_t_value", "unlock")}
            ELSE {Move("inform", "unlock")}
      [] at = "get_t_value" -> {Move("check", "none")}
      [] at = "inform" -> {Move("sleep", "none")}

\* check_notification_changes statement by statement: vec_changes is created
\* (line 185); each turn of the loop locks (189), calls get_change (192) and,
\* given a change, reads the value of its tag and pushes it (193-198) before
\* the guard goes out of scope at the end of the turn; without a change the
\* break drops the guard (200-201) and the middlewares are informed (205-208)
check_notification_changes_loop(at, change) ==
    CASE at = "sleep" -> {Move("check", "none")}
      [] at = "check" -> {Move("get_change", "lock")}
      [] at = "get_change" ->
            IF change # None THEN {Move("get_t_value", "none")}
            ELSE {Move("inform", "unlock")}
      [] at = "get_t_value" -> {Move("check", "unlock")}
      [] at = "inform" -> {Move("sleep", "none")}

\* the requests of the MODBUS/TCP client: the n-th one writes n to the
\* register of the measure, or to the first two registers of the bloc 0 of
\* the PACK_IN area
RegisterWrites(n) == {<<0, <<n>>>>, <<256, <<n, n>>>>}

\* database_afsec_process has registered its user and sleeps; the MODBUS/TCP
\* service awaits a request
InitDrain ==
    /\ middlewares = MiddlewaresNew
    /\ db = afsec_service.db
    /\ request = Empty
    /\ response = Empty
    /\ trace = <<>>
    /\ notified = <<>>
    /\ ledger = LedgerNew
    /\ tasks = [TasksNew EXCEPT !.at["serial"] = "sleep",
                                !.id_user["serial"] = afsec_service.id_user]
    /\ frame = Empty
    /\ stream = <<>>
    /\ fresh = TRUE
    /\ op = "new"
    /\ item = NoItem
    /\ result = "none"

\* the owner of the mutex after a move
Owner(task, move) ==
    IF move.mutex = "lock" THEN Some(task)
    ELSE IF move.mutex = "unlock" THEN None
    ELSE tasks.owner

\* a statement of check_notification_changes; `ledger` keeps the change that
\* get_change returned and the store as it was at that time
DrainStep ==
    LET at == tasks.at["serial"]
        polled == get_change(db, tasks.id_user["serial"], FALSE, TRUE)
        change == ledger.call.change
        tag == get_tag_from_id_tag(db, change[1].id_tag)
    IN  \E move \in check_notification_changes_loop(at, polled.change) :
            /\ move.mutex = "lock" => tasks.owner = None
            /\ at = "get_t_value" => tasks.owner \in {None, Some("serial")}
            /\ tasks' = [tasks EXCEPT !.at["serial"] = move.to,
                                      !.owner = Owner("serial", move)]
            /\ db' = IF at = "get_change" THEN polled.db ELSE db
            /\ ledger' = IF at = "get_change"
                         THEN [ledger EXCEPT !.call.change = polled.change,
                                             !.held = db.vec_u8]
                         ELSE ledger
            /\ notified' =
                 IF at = "sleep" THEN <<>>
                 ELSE IF at = "get_t_value" /\ tag # None
                 THEN Append(notified, <<change[1].id_user, change[1].id_tag,
                                         get_t_value_from_tag(db, tag[1])>>)
                 ELSE notified
            /\ middlewares' = IF at = "inform" THEN NotifyChanges(middlewares, notified)
                              ELSE middlewares
            /\ op' = "serial"
            /\ UNCHANGED <<request, response, trace, frame, stream, fresh, item, result>>

\* a step of the MODBUS/TCP service: under the guard it reads registers, or
\* writes those of the request, less or more than a second after the last
\* change
ServiceStep ==
    LET at == tasks.at["modbus"]
    IN  \E move \in modbus_call(at) :
        \E write \in {None} \cup {Some(w) : w \in RegisterWrites(ledger.nb_calls + 1)},
           recent \in Clocks(db, ID_ANONYMOUS_USER) :
            /\ write # None => at = "register" /\ ledger.nb_calls < MaxDrainWrites
            /\ move.mutex = "lock" => tasks.owner = None
            /\ tasks' = [tasks EXCEPT !.at["modbus"] = move.to,
                                      !.owner = Owner("modbus", move)]
            /\ db' = IF write # None
                     THEN register_write(Clock(db, recent), ID_ANONYMOUS_USER,
                                         write[1][1], write[1][2])
                     ELSE db
            /\ ledger' = IF write # None THEN [ledger EXCEPT !.nb_calls = @ + 1]
                         ELSE ledger
            /\ op' = "modbus"
            /\ UNCHANGED <<middlewares, request, response, trace, notified, frame,
                           stream, fresh, item, result>>

NextDrain ==
    \/ DrainStep
    \/ ServiceStep

SpecDrain == InitDrain /\ [][NextDrain]_vars

---------------------------------------------------------------------------
(* Properties of the drain *)

\* the value of the tag in the store `held`
ValueHeld(held, id_tag) ==
    get_t_value_from_tag([db EXCEPT !.vec_u8 = held], get_tag_from_id_tag(db, id_tag)[1])

\* the values a tag holds after a whole request of the client, or before any
CommittedValues(id_tag) ==
    {ValueHeld(register_write(DatabaseDefault, ID_ANONYMOUS_USER, write[1], write[2]).vec_u8,
               id_tag) :
        write \in UNION {RegisterWrites(n) : n \in 0..MaxDrainWrites}}

\* C40: check_notification_changes owns the mutex from get_change to the read
\* of the value of the tag and frees it between two changes: the pair pushed
\* is the change get_change returned with the value its tag held when it was
\* returned, a value that a whole request left (or the initial one), never a
\* mix of two requests
C40_DrainUnderLock ==
    [][/\ tasks.at["serial"] \in {"get_change", "get_t_value"}
            => tasks.owner = Some("serial")
       /\ tasks.at["serial"] \in {"sleep", "check", "inform"}
            => tasks.owner # Some("serial")
       /\ (tasks.at["serial"] = "get_t_value" /\ tasks'.at["serial"] = "check")
            => LET change == ledger.call.change[1]
               IN  /\ notified' = Append(notified,
                                         <<change.id_user, change.id_tag,
                                           ValueHeld(ledger.held, change.id_tag)>>)
                   /\ notified'[Len(notified')][3] \in CommittedValues(change.id_tag)
                   /\ tasks'.owner = None
       /\ ~(tasks.at["serial"] = "get_t_value" /\ tasks'.at["serial"] = "check")
            => notified' \in {notified, <<>>}]_vars

\* the client wrote the measure twice, the first write alone being recorded;
\* the drain pushed the change with the value of the second write, freed the
\* mutex, and the service owns it before the drain asks for the next change
C40_Witness ==
    /\ tasks.at["serial"] = "check"
    /\ tasks.owner = Some("modbus")
    /\ ledger.nb_calls = 2
    /\ Len(db.vec_changes) = 1
    /\ notified = <<<<ID_ANONYMOUS_USER, IdTag(0, 258, 0, 0, 0), TI16(2)>>>>

===========================================================================
